---- MODULE Spec2Model ----
(***************************************************************************)
(* The Account facade of the nodejs wallet bindings (lib/account.ts), the  *)
(* message bridge it talks through (createMessageHandler.ts) and the       *)
(* engine behind the bridge, seen only through the texts it exchanges.      *)
(*                                                                         *)
(* JavaScript values are tagged records; a JavaScript string is a sequence *)
(* of chunks (a digit, a sign, a blank, or an opaque word), so that the    *)
(* numeric conversions work on the characters they read.  A JSON text is a *)
(* sequence of tokens; JSON.stringify writes it and JSON.parse reads it.   *)
(***************************************************************************)
EXTENDS Integers, Sequences, FiniteSets, TLC

\* ------------------------------------------------------------------ bounds
\* Largest amount the caller or the engine uses.
MaxAmount == 17
\* Longest native-token list of a balance payload.
MaxTokens == 1
\* Longest SendParams[] list the caller passes.
MaxParams == 1
\* Largest maxAttempts the caller passes to retryTransactionUntilIncluded.
MaxAttempts == 2
\* How many more times the caller passes a params object it has passed before.
MaxReuse == 1
\* The inputs and the outputs of an essence the caller builds.
MaxInputs == 2
MaxOutputs == 3
\* The calls the caller issues without awaiting the ones before.
MaxCalls == 2
\* The calls one message handler makes into the native bindings.
MaxBindingCalls == 4

\* ---------------------------------------------------------- JavaScript values
Undef == [t |-> "undefined"]
Null == [t |-> "null"]
Str(s) == [t |-> "string", s |-> s]
Num(n) == [t |-> "number", n |-> n]
Big(n) == [t |-> "bigint", b |-> n]
Obj(f) == [t |-> "object", o |-> f]
Arr(s) == [t |-> "array", a |-> s]
\* new Map(entries): entries is a sequence of <<key, value>> pairs.
MapOf(entries) == [t |-> "Map", m |-> entries]
\* An instance of a class built from a plain object's properties.
Inst(cls, f) == [t |-> "instance", cls |-> cls, o |-> f]
Bool(b) == [t |-> "boolean", v |-> b]
\* A string holding a text: its content is the sequence of the text's tokens.
Text(toks) == [t |-> "string", x |-> toks]
\* new Error(message); its name is the constructor's, its message a text.
Err(name, msg) == [t |-> "Error", name |-> name, message |-> msg]

EmptyFcn == [k \in {} |-> Undef]

IsNullish(v) == v.t \in {"undefined", "null"}
HasProps(v) == v.t \in {"object", "instance"}

\* v[k] for a value that is not undefined or null: undefined when absent.
Get(v, k) ==
    IF HasProps(v) /\ k \in DOMAIN v.o THEN v.o[k] ELSE Undef

\* obj[k] = x, leaving every other property alone.
Put(v, k, x) ==
    [v EXCEPT !.o = (k :> x) @@ v.o]

\* ------------------------------------------------------------ numeric strings
DecDigits == <<"0", "1", "2", "3", "4", "5", "6", "7", "8", "9">>
HexLower == DecDigits \o <<"a", "b", "c", "d", "e", "f">>
HexUpper == DecDigits \o <<"A", "B", "C", "D", "E", "F">>

Range(s) == {s[i] : i \in 1..Len(s)}
IndexOf(s, c) == CHOOSE i \in 1..Len(s) : s[i] = c

IsDigit(c, radix) ==
    \E i \in 1..radix : HexLower[i] = c \/ HexUpper[i] = c

DigitVal(c) ==
    IF c \in Range(HexLower) THEN IndexOf(HexLower, c) - 1
    ELSE IndexOf(HexUpper, c) - 1

RECURSIVE DigitsValue(_, _)
\* The number a non-empty run of digits denotes in the radix.
DigitsValue(ds, radix) ==
    IF Len(ds) = 0 THEN 0
    ELSE DigitsValue(SubSeq(ds, 1, Len(ds) - 1), radix) * radix
         + DigitVal(ds[Len(ds)])

AllDigits(ds, radix) ==
    /\ Len(ds) > 0
    /\ \A i \in 1..Len(ds) : IsDigit(ds[i], radix)

RECURSIVE NatToString(_, _)
\* Number.prototype.toString(radix) / BigInt.prototype.toString(radix), n >= 0.
NatToString(n, radix) ==
    IF n < radix THEN <<HexLower[n + 1]>>
    ELSE NatToString(n \div radix, radix) \o <<HexLower[(n % radix) + 1]>>

\* BigInt.prototype.toString(radix).
BigIntToString(n, radix) ==
    IF n < 0 THEN <<"-">> \o NatToString(-n, radix) ELSE NatToString(n, radix)

IsBlank(c) == c \in {" ", "\t", "\n"}

RECURSIVE TrimLeft(_)
TrimLeft(s) ==
    IF Len(s) > 0 /\ IsBlank(s[1]) THEN TrimLeft(Tail(s)) ELSE s

RECURSIVE TrimRight(_)
TrimRight(s) ==
    IF Len(s) > 0 /\ IsBlank(s[Len(s)])
    THEN TrimRight(SubSeq(s, 1, Len(s) - 1)) ELSE s

Trim(s) == TrimRight(TrimLeft(s))

Thrown(e) == [ok |-> FALSE, error |-> e]
Value(v) == [ok |-> TRUE, value |-> v]

SyntaxErrorBigInt == Err("SyntaxError", <<[w |-> "Cannot convert to a BigInt"]>>)

\* BigInt(string): StringToBigInt of ECMAScript.  Blanks are trimmed, the
\* empty string is 0n, 0x / 0o / 0b select the radix (no sign allowed with
\* them), a decimal literal may carry a sign; anything else is a SyntaxError.
StringToBigInt(str) ==
    LET s == Trim(str)
        prefixed(p, q) == Len(s) >= 2 /\ s[1] = "0" /\ s[2] \in {p, q}
        rest == SubSeq(s, 3, Len(s))
        signed == Len(s) >= 1 /\ s[1] \in {"+", "-"}
        body == IF signed THEN Tail(s) ELSE s
    IN  IF Len(s) = 0 THEN Value(Big(0))
        ELSE IF prefixed("x", "X") THEN
            IF AllDigits(rest, 16) THEN Value(Big(DigitsValue(rest, 16)))
            ELSE Thrown(SyntaxErrorBigInt)
        ELSE IF prefixed("o", "O") THEN
            IF AllDigits(rest, 8) THEN Value(Big(DigitsValue(rest, 8)))
            ELSE Thrown(SyntaxErrorBigInt)
        ELSE IF prefixed("b", "B") THEN
            IF AllDigits(rest, 2) THEN Value(Big(DigitsValue(rest, 2)))
            ELSE Thrown(SyntaxErrorBigInt)
        ELSE IF AllDigits(body, 10) THEN
            Value(Big(IF signed /\ s[1] = "-" THEN -DigitsValue(body, 10)
                      ELSE DigitsValue(body, 10)))
        ELSE Thrown(SyntaxErrorBigInt)

TypeErrorBigInt == Err("TypeError", <<[w |-> "Cannot convert to a BigInt"]>>)

\* BigInt(value) for the values a decoded JSON payload holds.
ToBigInt(v) ==
    CASE v.t = "string" -> StringToBigInt(v.s)
      [] v.t = "number" -> Value(Big(v.n))
      [] v.t = "bigint" -> Value(v)
      [] OTHER -> Thrown(TypeErrorBigInt)

\* ------------------------------------------------------------------ JSON texts
\* Tokens: punctuation, a string literal, a number literal, a bare word.
P(c) == [p |-> c]
S(chunks) == [s |-> chunks]
N(n) == [n |-> n]
W(w) == [w |-> w]

IsP(tok, c) == DOMAIN tok = {"p"} /\ tok.p = c

\* The order in which object literals of this program list their keys.
KeyOrder ==
    <<"cmd", "payload", "accountId", "method", "name", "data", "type",
      "code", "error", "transaction", "blockId", "transactionId", "interval",
      "maxAttempts", "amount", "address", "params", "options",
      "transactionOptions", "burn", "nativeTokens", "nfts", "aliases",
      "foundries", "tokenId", "mintAmount", "meltAmount",
      "circulatingSupply", "maximumSupply", "foundryMetadata",
      "recipientAddress",
      "baseCoin", "requiredStorageDeposit", "id", "total", "available",
      "alias", "basic", "foundry", "nft", "outputId", "outputIds",
      "outputIdsToClaim", "outputsToClaim", "outputs", "eventId",
      "eventIds", "eventType", "answers", "node", "filterOptions",
      "preparedTransactionData", "signedTransactionData", "essence",
      "unlocks", "tag", "storagePath", "clientOptions", "coinType",
      "secretManager", "index", "txPayload", "networkId",
      "inputsCommitment", "inputs", "inputsData", "transactionOutputIndex">>

TypeErrorStringify ==
    Err("TypeError", <<W("Do not know how to serialize a BigInt")>>)

RECURSIVE HasBigInt(_)
\* Whether JSON.stringify meets a bigint while it walks the value.  A Map
\* has no enumerable own properties, so its entries are never visited.
HasBigInt(v) ==
    CASE v.t = "bigint" -> TRUE
      [] HasProps(v) -> \E k \in DOMAIN v.o : HasBigInt(v.o[k])
      [] v.t = "array" -> \E i \in 1..Len(v.a) : HasBigInt(v.a[i])
      [] OTHER -> FALSE

\* The keys JSON.stringify writes for an object, in order: a property whose
\* value is undefined is left out.
WrittenKeys(f) ==
    LET Written(k) == k \in DOMAIN f /\ f[k].t # "undefined"
    IN  SelectSeq(KeyOrder, Written)

RECURSIVE Ser(_), SerMembers(_, _, _), SerElems(_, _)
\* SerializeJSONProperty: the tokens of a value that holds no bigint.
Ser(v) ==
    CASE v.t = "string" /\ "s" \in DOMAIN v -> <<S(v.s)>>
      [] v.t = "string" /\ "x" \in DOMAIN v -> <<[q |-> v.x]>>
      [] v.t = "number" -> <<N(v.n)>>
      [] v.t = "boolean" -> <<W(IF v.v THEN "true" ELSE "false")>>
      [] v.t = "null" -> <<W("null")>>
      [] HasProps(v) ->
            <<P("{")>> \o SerMembers(v.o, WrittenKeys(v.o), 1) \o <<P("}")>>
      [] v.t = "array" -> <<P("[")>> \o SerElems(v.a, 1) \o <<P("]")>>
      [] v.t \in {"Map", "Error"} -> <<P("{"), P("}")>>
      [] OTHER -> <<W("null")>>

\* The members of an object, from the i-th written key on.
SerMembers(f, keys, i) ==
    IF i > Len(keys) THEN <<>>
    ELSE (IF i = 1 THEN <<>> ELSE <<P(",")>>)
         \o <<S(<<keys[i]>>), P(":")>> \o Ser(f[keys[i]])
         \o SerMembers(f, keys, i + 1)

\* The elements of an array: undefined is written as null.
SerElems(a, i) ==
    IF i > Len(a) THEN <<>>
    ELSE (IF i = 1 THEN <<>> ELSE <<P(",")>>)
         \o Ser(a[i]) \o SerElems(a, i + 1)

\* JSON.stringify(value) for an object or array value.
JSONstringify(v) ==
    IF HasBigInt(v) THEN Thrown(TypeErrorStringify) ELSE Value(Text(Ser(v)))

SyntaxErrorJSON == Err("SyntaxError", <<W("Unexpected token in JSON")>>)
NoParse == [ok |-> FALSE]

RECURSIVE ParseValue(_, _), ParseMembers(_, _, _), ParseElems(_, _, _)
\* One JSON value starting at token i: the value and the index after it.
ParseValue(toks, i) ==
    IF i > Len(toks) THEN NoParse
    ELSE LET tok == toks[i] IN
      CASE DOMAIN tok = {"s"} -> [ok |-> TRUE, value |-> Str(tok.s), next |-> i + 1]
        [] DOMAIN tok = {"q"} -> [ok |-> TRUE, value |-> Text(tok.q), next |-> i + 1]
        [] DOMAIN tok = {"n"} -> [ok |-> TRUE, value |-> Num(tok.n), next |-> i + 1]
        [] DOMAIN tok = {"w"} ->
            IF tok.w = "null" THEN [ok |-> TRUE, value |-> Null, next |-> i + 1]
            ELSE IF tok.w \in {"true", "false"}
            THEN [ok |-> TRUE, value |-> Bool(tok.w = "true"), next |-> i + 1]
            ELSE NoParse
        [] IsP(tok, "{") ->
            IF i + 1 <= Len(toks) /\ IsP(toks[i + 1], "}")
            THEN [ok |-> TRUE, value |-> Obj(EmptyFcn), next |-> i + 2]
            ELSE ParseMembers(toks, i + 1, EmptyFcn)
        [] IsP(tok, "[") ->
            IF i + 1 <= Len(toks) /\ IsP(toks[i + 1], "]")
            THEN [ok |-> TRUE, value |-> Arr(<<>>), next |-> i + 2]
            ELSE ParseElems(toks, i + 1, <<>>)
        [] OTHER -> NoParse

\* "key" : value, then "," and more members or the closing brace.  A key
\* given twice keeps its last value.
ParseMembers(toks, i, acc) ==
    IF i + 1 > Len(toks) THEN NoParse
    ELSE IF ~(DOMAIN toks[i] = {"s"} /\ Len(toks[i].s) = 1 /\ IsP(toks[i + 1], ":"))
    THEN NoParse
    ELSE LET r == ParseValue(toks, i + 2) IN
         IF ~r.ok \/ r.next > Len(toks) THEN NoParse
         ELSE LET acc2 == (toks[i].s[1] :> r.value) @@ acc IN
              IF IsP(toks[r.next], "}")
              THEN [ok |-> TRUE, value |-> Obj(acc2), next |-> r.next + 1]
              ELSE IF IsP(toks[r.next], ",")
              THEN ParseMembers(toks, r.next + 1, acc2)
              ELSE NoParse

ParseElems(toks, i, acc) ==
    LET r == ParseValue(toks, i) IN
    IF ~r.ok \/ r.next > Len(toks) THEN NoParse
    ELSE LET acc2 == Append(acc, r.value) IN
         IF IsP(toks[r.next], "]")
         THEN [ok |-> TRUE, value |-> Arr(acc2), next |-> r.next + 1]
         ELSE IF IsP(toks[r.next], ",")
         THEN ParseElems(toks, r.next + 1, acc2)
         ELSE NoParse

\* String(value), as a text: a string is itself, an Error is "name: message".
ToStringText(v) ==
    CASE v.t = "string" /\ "x" \in DOMAIN v -> v.x
      [] v.t = "string" /\ "s" \in DOMAIN v -> <<S(v.s)>>
      [] v.t = "Error" -> <<W(v.name), P(":")>> \o v.message
      [] OTHER -> <<W("[object Object]")>>

\* JSON.parse(text): the whole text must be one JSON value.
JSONparseText(toks) ==
    LET r == ParseValue(toks, 1) IN
    IF r.ok /\ r.next = Len(toks) + 1 THEN Value(r.value)
    ELSE Thrown(SyntaxErrorJSON)

\* JSON.parse(value): the argument is first converted to a string.
JSONparse(v) == JSONparseText(ToStringText(v))

\* ------------------------------------------------------ numeric normalization
FormatError == Err("FormatError", <<W("invalid hex-encoded amount")>>)

\* A bigIntToHex that writes the hex digits in upper case.
bigIntToHexUpper(v) ==
    IF v.t = "bigint"
    THEN LET low == BigIntToString(v.b, 16)
         IN  Str(<<"0", "x">> \o [i \in 1..Len(low) |->
                                    HexUpper[IndexOf(HexLower, low[i])]])
    ELSE IF v.t = "string" /\ "s" \in DOMAIN v THEN Str(<<"0", "x">> \o v.s)
    ELSE Str(<<"0", "x">>)

\* bigIntToHex of types/utils/hex-encoding: "0x" and the hex digits.
bigIntToHex(v) ==
    IF v.t = "bigint" THEN Str(<<"0", "x">> \o BigIntToString(v.b, 16))
    ELSE IF v.t = "string" /\ "s" \in DOMAIN v THEN Str(<<"0", "x">> \o v.s)
    ELSE Str(<<"0", "x">>)

\* hexToBigInt of types/utils/hex-encoding: the amount of a 0x[0-9a-f]+ string
\* (hex digits in either case), FormatError for anything else.
hexToBigInt(v) ==
    IF /\ v.t = "string" /\ "s" \in DOMAIN v
       /\ Len(v.s) >= 3 /\ v.s[1] = "0" /\ v.s[2] = "x"
       /\ AllDigits(SubSeq(v.s, 3, Len(v.s)), 16)
    THEN Value(Big(DigitsValue(SubSeq(v.s, 3, Len(v.s)), 16)))
    ELSE Thrown(FormatError)

\* An amount conversion that writes hex digits.
amountToStringHex(amount) ==
    IF amount.t = "bigint" THEN Str(BigIntToString(amount.b, 16)) ELSE amount

\* if (typeof amount === 'bigint') amount = amount.toString(10)
amountToString(amount) ==
    IF amount.t = "bigint" THEN Str(BigIntToString(amount.b, 10)) ELSE amount

TypeErrorProperty ==
    Err("TypeError", <<W("Cannot read properties of undefined")>>)

\* A field assignment that leaves the field as it came when the conversion
\* throws, and goes on.
ConvertFieldLenient(r, holder, field, isHex) ==
    IF ~r.ok THEN r
    ELSE LET target == Get(r.value, holder) IN
         IF IsNullish(target) THEN Thrown(TypeErrorProperty)
         ELSE LET c == IF isHex THEN hexToBigInt(Get(target, field))
                       ELSE ToBigInt(Get(target, field)) IN
              IF ~c.ok \/ ~HasProps(target) THEN r
              ELSE Value(Put(r.value, holder, Put(target, field, c.value)))

\* payload[holder][field] = conv(payload[holder][field]): one assignment of
\* adjustBalancePayload, with the exception it may throw.
ConvertField(r, holder, field, isHex) ==
    IF ~r.ok THEN r
    ELSE LET target == Get(r.value, holder) IN
         IF IsNullish(target) THEN Thrown(TypeErrorProperty)
         ELSE LET c == IF isHex THEN hexToBigInt(Get(target, field))
                       ELSE ToBigInt(Get(target, field)) IN
              IF ~c.ok THEN c
              ELSE IF ~HasProps(target) THEN r
              ELSE Value(Put(r.value, holder, Put(target, field, c.value)))

RECURSIVE AdjustTokens(_, _)
\* The loop over payload.nativeTokens, from index i (1-based) on.
AdjustTokens(r, i) ==
    IF ~r.ok THEN r
    ELSE LET list == Get(r.value, "nativeTokens") IN
         IF list.t # "array" \/ i > Len(list.a) THEN r
         ELSE LET tok == list.a[i] IN
              IF IsNullish(tok) THEN Thrown(TypeErrorProperty)
              ELSE LET t1 == hexToBigInt(Get(tok, "total")) IN
                   IF ~t1.ok THEN t1
                   ELSE LET t2 == hexToBigInt(Get(tok, "available")) IN
                        IF ~t2.ok THEN t2
                        ELSE IF ~HasProps(tok) THEN AdjustTokens(r, i + 1)
                        ELSE AdjustTokens(
                               Value(Put(r.value, "nativeTokens",
                                   Arr([list.a EXCEPT ![i] =
                                       Put(Put(tok, "total", t1.value),
                                           "available", t2.value)]))),
                               i + 1)

\* An adjustBalancePayload that leaves requiredStorageDeposit.nft as it came.
adjustBalancePayloadNoNft(payload) ==
    IF IsNullish(payload) \/ IsNullish(Get(payload, "nativeTokens"))
    THEN Thrown(TypeErrorProperty)
    ELSE LET r0 == AdjustTokens(Value(payload), 1)
             r1 == ConvertField(r0, "baseCoin", "total", FALSE)
             r2 == ConvertField(r1, "baseCoin", "available", FALSE)
             r3 == ConvertField(r2, "requiredStorageDeposit", "alias", FALSE)
             r4 == ConvertField(r3, "requiredStorageDeposit", "basic", FALSE)
         IN  ConvertField(r4, "requiredStorageDeposit", "foundry", FALSE)

\* Account.adjustBalancePayload: the native tokens through hexToBigInt, the
\* base coin and the storage deposits through BigInt.
adjustBalancePayload(payload) ==
    IF IsNullish(payload) \/ IsNullish(Get(payload, "nativeTokens"))
    THEN Thrown(TypeErrorProperty)
    ELSE LET r0 == AdjustTokens(Value(payload), 1)
             r1 == ConvertField(r0, "baseCoin", "total", FALSE)
             r2 == ConvertField(r1, "baseCoin", "available", FALSE)
             r3 == ConvertField(r2, "requiredStorageDeposit", "alias", FALSE)
             r4 == ConvertField(r3, "requiredStorageDeposit", "basic", FALSE)
             r5 == ConvertField(r4, "requiredStorageDeposit", "foundry", FALSE)
         IN  ConvertField(r5, "requiredStorageDeposit", "nft", FALSE)

\* ------------------------------------------------------------ response decoding
\* enum TransactionEssenceType { Regular = 1 }
TransactionEssenceTypeRegular == 1

\* new TransactionEssence(type): the base constructor sets the tag only.
TransactionEssence(type) == Inst("TransactionEssence", [type |-> type])

\* new RegularTransactionEssence(networkId, inputsCommitment, inputs, outputs,
\* payload): super(Regular), then the five fields, payload also when undefined.
RegularTransactionEssence(networkId, inputsCommitment, inputs, outputs, payload) ==
    Inst("RegularTransactionEssence",
         [networkId |-> networkId, inputsCommitment |-> inputsCommitment,
          inputs |-> inputs, outputs |-> outputs, payload |-> payload]
         @@ TransactionEssence(Num(TransactionEssenceTypeRegular)).o)

\* A discriminator that registers the regular essence under a tag of its own.
TransactionEssenceDiscriminatorOtherTag ==
    [property |-> "type",
     subTypes |-> <<[value |-> "RegularTransactionEssence", name |-> Num(2)]>>]

\* const TransactionEssenceDiscriminator
TransactionEssenceDiscriminator ==
    [property |-> "type",
     subTypes |-> <<[value |-> "RegularTransactionEssence",
                     name |-> Num(TransactionEssenceTypeRegular)]>>]

\* The discriminators essence.ts imports for its inputs, outputs and payload.
InputDiscriminator ==
    [property |-> "type",
     subTypes |-> <<[value |-> "UTXOInput", name |-> Num(0)],
                    [value |-> "TreasuryInput", name |-> Num(1)]>>]
OutputDiscriminator ==
    [property |-> "type",
     subTypes |-> <<[value |-> "TreasuryOutput", name |-> Num(2)],
                    [value |-> "BasicOutput", name |-> Num(3)],
                    [value |-> "AliasOutput", name |-> Num(4)],
                    [value |-> "FoundryOutput", name |-> Num(5)],
                    [value |-> "NftOutput", name |-> Num(6)]>>]
PayloadDiscriminator ==
    [property |-> "type",
     subTypes |-> <<[value |-> "MilestonePayload", name |-> Num(7)],
                    [value |-> "TaggedDataPayload", name |-> Num(5)],
                    [value |-> "TransactionPayload", name |-> Num(6)],
                    [value |-> "TreasuryTransactionPayload", name |-> Num(4)]>>]

\* The subtypes a discriminator registers, with the tag each constructor sets.
SubTypes(discriminator) ==
    {discriminator.subTypes[i] : i \in 1..Len(discriminator.subTypes)}
TaggedClasses ==
    SubTypes(InputDiscriminator) \cup SubTypes(OutputDiscriminator)
    \cup SubTypes(PayloadDiscriminator)

\* new cls(): what the constructor of the class leaves in the instance when
\* class-transformer calls it without arguments.
Constructed(cls) ==
    CASE cls = "RegularTransactionEssence" ->
            RegularTransactionEssence(Undef, Undef, Undef, Undef, Undef)
      [] cls = "TransactionEssence" -> TransactionEssence(Undef)
      [] cls \in {c.value : c \in TaggedClasses} ->
            Inst(cls, [type |-> (CHOOSE c \in TaggedClasses : c.value = cls).name])
      [] cls \in {"Input", "Output", "Payload"} -> Inst(cls, [type |-> Undef])
      [] OTHER -> Inst(cls, EmptyFcn)

\* The @Type decoration of a property: none, a class, or a base class with
\* a discriminator.
NoType == [kind |-> "none"]
TypeOf(cls, key) ==
    CASE cls = "RegularTransactionEssence" /\ key = "inputs" ->
            [kind |-> "discriminated", base |-> "Input",
             discriminator |-> InputDiscriminator]
      [] cls = "RegularTransactionEssence" /\ key = "outputs" ->
            [kind |-> "discriminated", base |-> "Output",
             discriminator |-> OutputDiscriminator]
      [] cls = "RegularTransactionEssence" /\ key = "payload" ->
            [kind |-> "discriminated", base |-> "Payload",
             discriminator |-> PayloadDiscriminator]
      [] cls \in {"PreparedTransactionData", "TransactionPayload",
                  "PreparedCreateNativeTokenTransactionData"}
         /\ key = "essence" ->
            [kind |-> "discriminated", base |-> "TransactionEssence",
             discriminator |-> TransactionEssenceDiscriminator]
      [] cls = "SignedTransactionEssence" /\ key = "txPayload" ->
            [kind |-> "class", base |-> "TransactionPayload"]
      [] cls = "Transaction" /\ key = "payload" ->
            [kind |-> "class", base |-> "TransactionPayload"]
      [] OTHER -> NoType

\* class-transformer's choice of the class to build for a plain object under
\* a discriminator: the subtype registered under the object's tag (compared
\* with ===), and the base class when no subtype is.
SubTypeFor(discriminator, base, f) ==
    LET hits == {i \in 1..Len(discriminator.subTypes) :
                    /\ discriminator.property \in DOMAIN f
                    /\ f[discriminator.property] = discriminator.subTypes[i].name}
    IN  IF hits = {} THEN base
        ELSE discriminator.subTypes[CHOOSE i \in hits : \A j \in hits : i <= j].value

RECURSIVE Transform(_, _), TransformOne(_, _), TransformValue(_, _)
\* The instance of the class for the properties of a plain object: the
\* constructor runs first, then every property of the plain object is set,
\* decorated properties through their own transformation.
Transform(cls, f) ==
    Inst(cls,
         [k \in DOMAIN f |->
            IF TypeOf(cls, k).kind = "none" THEN f[k]
            ELSE TransformValue(TypeOf(cls, k), f[k])]
         @@ Constructed(cls).o)

\* One value under a @Type decoration: an object becomes an instance (under
\* a discriminator the tag property is deleted from the plain object, the
\* default keepDiscriminatorProperty: false), anything else stays as it is.
TransformOne(type, v) ==
    IF v.t # "object" THEN v
    ELSE IF type.kind = "discriminated"
         THEN Transform(SubTypeFor(type.discriminator, type.base, v.o),
                        [k \in DOMAIN v.o \ {type.discriminator.property} |-> v.o[k]])
         ELSE Transform(type.base, v.o)

\* A decorated property: an array element by element.
TransformValue(type, v) ==
    IF v.t = "array"
    THEN Arr([i \in 1..Len(v.a) |-> TransformOne(type, v.a[i])])
    ELSE TransformOne(type, v)

\* plainToInstance(cls, plain) of class-transformer: an array element by
\* element, an object as an instance of the class, anything else as it is.
plainToInstance(cls, plain) ==
    TransformValue([kind |-> "class", base |-> cls], plain)

\* The tags of the Output family and the class each selects.
OutputTags == {2, 3, 4, 5, 6}
OutputClass(tag) ==
    CASE tag = 2 -> "TreasuryOutput"
      [] tag = 3 -> "BasicOutput"
      [] tag = 4 -> "AliasOutput"
      [] tag = 5 -> "FoundryOutput"
      [] tag = 6 -> "NftOutput"

DecodeError == Err("DecodeError", <<W("Invalid JSON")>>)

\* Output.parse: the variant the type tag selects, DecodeError when no
\* variant is registered for the tag.
OutputParse(data) ==
    IF /\ data.t = "object"
       /\ Get(data, "type").t = "number"
       /\ Get(data, "type").n \in OutputTags
    THEN Value(Inst(OutputClass(Get(data, "type").n), data.o))
    ELSE Thrown(DecodeError)

\* A PreparedTransaction that is always bound to the first account.
NewPreparedTransactionFirstAccount(cls, dataCls, payload, account) ==
    [t |-> "PreparedTransaction", cls |-> cls,
     data |-> plainToInstance(dataCls, payload), account |-> "A1"]

\* new PreparedTransaction(plainToInstance(PreparedTransactionData, payload), account)
NewPreparedTransaction(cls, dataCls, payload, account) ==
    [t |-> "PreparedTransaction", cls |-> cls,
     data |-> plainToInstance(dataCls, payload), account |-> account]

\* A decoding that returns the whole parsed response.
ResponseWhole(response) ==
    LET parsed == JSONparse(response) IN
    IF ~parsed.ok THEN parsed
    ELSE IF IsNullish(parsed.value) THEN Thrown(TypeErrorProperty)
    ELSE Value(parsed.value)

\* JSON.parse(response).payload
ResponsePayload(response) ==
    LET parsed == JSONparse(response) IN
    IF ~parsed.ok THEN parsed
    ELSE IF IsNullish(parsed.value) THEN Thrown(TypeErrorProperty)
    ELSE Value(Get(parsed.value, "payload"))

\* How each operation turns the response into its return value.
BalanceOps == {"getBalance", "sync"}
VoidOps == {"setAlias", "setDefaultSyncOptions"}
OutputOps ==
    {"buildBasicOutput", "buildFoundryOutput", "buildNftOutput",
     "getFoundryOutput", "prepareOutput"}
TransactionOps ==
    {"claimOutputs", "getTransaction", "getIncomingTransaction",
     "pendingTransactions", "incomingTransactions", "transactions", "send",
     "sendWithParams", "sendOutputs", "signAndSubmitTransaction",
     "submitAndStoreTransaction"}
OutputDataOps == {"getOutput", "outputs", "unspentOutputs"}
\* The Account methods that submit a transaction and return its record;
\* the other TransactionOps look up records the account already stores.
SubmittingOps ==
    {"claimOutputs", "send", "sendWithParams", "sendOutputs",
     "signAndSubmitTransaction", "submitAndStoreTransaction"}
PreparedOps ==
    {"prepareBurn", "prepareBurnNativeToken", "prepareBurnNft",
     "prepareConsolidateOutputs", "prepareCreateAliasOutput",
     "prepareMeltNativeToken", "prepareDestroyAlias", "prepareDestroyFoundry",
     "prepareMintNativeToken", "prepareMintNfts", "prepareSend",
     "prepareTransaction", "prepareSendNativeTokens", "prepareSendNft",
     "prepareVote", "prepareStopParticipating", "prepareVotingPower",
     "prepareIncreaseVotingPower", "prepareDecreaseVotingPower"}
RawOps ==
    {"buildAliasOutput", "deregisterParticipationEvent",
     "generateEd25519Addresses", "getParticipationEvent",
     "getParticipationEventIds", "getParticipationEvents",
     "getParticipationEventStatus", "claimableOutputs", "addresses",
     "addressesWithUnspentOutputs", "registerParticipationEvents",
     "retryTransactionUntilIncluded", "getParticipationOverview"}

\* The statements of an Account method after its await, given the string
\* the bridge resolved with: what the method returns or throws.
Decode(opname, self, response) ==
    IF opname \in VoidOps THEN Value(Undef)
    ELSE LET p == ResponsePayload(response) IN
      IF ~p.ok THEN p
      ELSE CASE opname \in BalanceOps -> adjustBalancePayload(p.value)
             [] opname \in OutputOps -> OutputParse(p.value)
             [] opname \in TransactionOps ->
                    Value(plainToInstance("Transaction", p.value))
             [] opname \in OutputDataOps ->
                    Value(plainToInstance("OutputData", p.value))
             [] opname = "signTransactionEssence" ->
                    Value(plainToInstance("SignedTransactionEssence", p.value))
             [] opname \in PreparedOps ->
                    Value(NewPreparedTransaction("PreparedTransaction",
                              "PreparedTransactionData", p.value, self))
             [] opname = "prepareCreateNativeToken" ->
                    Value(NewPreparedTransaction(
                              "PreparedCreateNativeTokenTransaction",
                              "PreparedCreateNativeTokenTransactionData",
                              p.value, self))
             [] OTHER -> p

\* ------------------------------------------------------------------ the bridge
\* sendMessage up to the engine call: the text handed to sendMessageAsync,
\* or the exception JSON.stringify throws before anything is sent.
sendMessage(message) == JSONstringify(message)

\* A bridge that addresses every command to account 0.
callAccountMethodFirstAccount(accountIndex, method) ==
    sendMessage(Obj([cmd |-> Str(<<"callAccountMethod">>),
                     payload |-> Obj([accountId |-> Num(0),
                                      method |-> method])]))

\* callAccountMethod(accountIndex, method) of the message handler.
callAccountMethod(accountIndex, method) ==
    sendMessage(Obj([cmd |-> Str(<<"callAccountMethod">>),
                     payload |-> Obj([accountId |-> Num(accountIndex),
                                      method |-> method])]))

\* A catch handler that forgets to take the payload out of the envelope.
sendMessageCatchEnvelope(error) ==
    LET parsed == JSONparse(error) IN
    IF parsed.ok /\ ~IsNullish(parsed.value) THEN parsed.value ELSE error

\* A catch handler that rejects with the exception of the failed parse.
sendMessageCatchParseError(error) ==
    LET parsed == JSONparse(error) IN
    IF parsed.ok /\ ~IsNullish(parsed.value)
    THEN Get(parsed.value, "payload")
    ELSE IF parsed.ok THEN TypeErrorProperty ELSE parsed.error

\* The catch handler of sendMessage: the value the bridge rejects with.
sendMessageCatch(error) ==
    LET parsed == JSONparse(error) IN
    IF parsed.ok /\ ~IsNullish(parsed.value)
    THEN Get(parsed.value, "payload")
    ELSE error

\* ------------------------------------------------------------------- the state
VARIABLES
    meta,     \* per Account instance: the AccountMeta it was constructed with
    pc,       \* the caller: "idle", "awaiting" a bridge call, or "settled"
    op,       \* the operation invoked last: account, name, arguments as passed
    held,     \* the params object the caller passed last, as the call left it
    wire,     \* the text handed to sendMessageAsync by this invocation
    sent,     \* how many times this invocation called sendMessageAsync
    bridge,   \* the promise callAccountMethod returned
    result,   \* the promise the Account method returned
    engine,   \* what the engine did with the command
    calls,    \* the bridge calls of a caller that does not await: one per call
    inbox,    \* the commands the engine received from those calls, in order
    messageHandler, \* createMessageHandler: its const and the object it returned
    bindings, \* the calls made into ./bindings, in order
    engineAlias \* per account: the alias the engine holds for it

vars == <<meta, pc, op, held, wire, sent, bridge, result, engine, calls, inbox,
          messageHandler, bindings, engineAlias>>
\* The caller that awaits each call, and the caller that does not.
awaitingVars == <<pc, op, held, wire, sent, bridge, result, engine>>
concurrentVars == <<calls, inbox>>
handlerVars == <<messageHandler, bindings>>

Accounts == {"A1", "A2"}
AccountIndex(a) == IF a = "A1" THEN 0 ELSE 1

Name(n) == Str(<<n>>)

\* Values the caller passes.
OpaqueObj == Obj([tag |-> Name("d1")])
Optional == {Undef, OpaqueObj}
Ids == {Name("id1")}
AmountNats == {0, 10, MaxAmount}
BigAmounts == {Big(n) : n \in AmountNats}
DecAmounts == {Str(BigIntToString(n, 10)) : n \in AmountNats}
Amounts == BigAmounts \cup DecAmounts \cup {Name("abc")}

SeqsUpTo(D, n) == UNION {[1..k -> D] : k \in 0..n}

SendParamsSet == {Obj([address |-> ad, amount |-> am]) : ad \in Ids, am \in Amounts}
SendParamsLists == {Arr(l) : l \in SeqsUpTo(SendParamsSet, MaxParams)}
OutputParamsSet ==
    {Obj([recipientAddress |-> ad, amount |-> am]) : ad \in Ids, am \in Amounts}
CreateNativeTokenParamsSet ==
    {Obj([circulatingSupply |-> c, maximumSupply |-> m, foundryMetadata |-> Name("md")]) :
        c \in BigAmounts, m \in BigAmounts}
Burns ==
    {Obj([nfts |-> Arr(<<id>>)]) : id \in Ids}
    \cup {Obj([aliases |-> Arr(<<id>>)]) : id \in Ids}
    \cup {Obj([foundries |-> Arr(<<id>>)]) : id \in Ids}
    \cup {Obj([nativeTokens |-> MapOf(<<<<id, b>>>>)]) : id \in Ids, b \in BigAmounts}

NoHeld == [kind |-> "none"]
Held(kind, v, uses) == [kind |-> kind, value |-> v, uses |-> uses]
\* The params objects an operation may be called with: a fresh one, or the
\* object of that kind the caller still holds from the call before.
Candidates(kind, fresh) ==
    {[params |-> f, uses |-> 0] : f \in fresh}
    \cup (IF held.kind = kind /\ held.uses < MaxReuse
          THEN {[params |-> held.value, uses |-> held.uses + 1]}
          ELSE {})

\* The engine before it settles a command: no attempt made, nothing answered.
IdleEngine ==
    [attempts |-> 0, included |-> 0, blockId |-> Undef,
     outcome |-> "none", raw |-> Undef]

Init ==
    /\ meta = [a \in Accounts |->
                 [index |-> AccountIndex(a), alias |-> Name(a), coinType |-> 4218]]
    /\ pc = "idle"
    /\ op = [name |-> "none"]
    /\ held = NoHeld
    /\ wire = Undef
    /\ sent = 0
    /\ bridge = [state |-> "none"]
    /\ result = [state |-> "none"]
    /\ engine = IdleEngine
    /\ calls = <<>>
    /\ inbox = <<>>
    /\ messageHandler = [state |-> "none"]
    /\ bindings = <<>>
    /\ engineAlias = [a \in Accounts |-> Name(a)]

\* An Account method that hands its command to the bridge a second time.
InvokeTwice(self, opname, args, method, heldAfter) ==
    /\ pc = "idle"
    /\ LET r == callAccountMethod(meta[self].index, method) IN
       /\ op' = [account |-> self, name |-> opname, args |-> args]
       /\ held' = heldAfter
       /\ engine' = IdleEngine
       /\ pc' = IF r.ok THEN "awaiting" ELSE "settled"
       /\ wire' = IF r.ok THEN r.value ELSE Undef
       /\ sent' = IF r.ok THEN 2 ELSE 0
       /\ bridge' = IF r.ok THEN [state |-> "pending"]
                   ELSE [state |-> "rejected", reason |-> r.error]
       /\ result' = IF r.ok THEN [state |-> "pending"]
                   ELSE [state |-> "threw", error |-> r.error]
    /\ UNCHANGED <<meta, concurrentVars, handlerVars, engineAlias>>

\* An Account method up to its await: the command is built and handed to
\* callAccountMethod, and the caller is suspended; when building the text
\* throws, nothing is sent and the method's promise is rejected at once.
Invoke(self, opname, args, method, heldAfter) ==
    /\ pc = "idle"
    /\ LET r == callAccountMethod(meta[self].index, method) IN
       /\ op' = [account |-> self, name |-> opname, args |-> args]
       /\ held' = heldAfter
       /\ engine' = IdleEngine
       /\ IF r.ok
          THEN /\ pc' = "awaiting"
               /\ wire' = r.value
               /\ sent' = 1
               /\ bridge' = [state |-> "pending"]
               /\ result' = [state |-> "pending"]
          ELSE /\ pc' = "settled"
               /\ wire' = Undef
               /\ sent' = 0
               /\ bridge' = [state |-> "rejected", reason |-> r.error]
               /\ result' = [state |-> "threw", error |-> r.error]
    /\ UNCHANGED <<meta, concurrentVars, handlerVars, engineAlias>>

\* { name } and { name, data }
Method0(name) == Obj([name |-> Name(name)])
Method(name, data) == Obj([name |-> Name(name), data |-> data])

\* if (typeof params.amount === 'bigint') params.amount = params.amount.toString(10)
AdjustAmount(params) ==
    IF Get(params, "amount").t = "bigint"
    THEN Put(params, "amount", amountToString(Get(params, "amount")))
    ELSE params

\* The same, for every element of a SendParams[].
AdjustAmounts(params) ==
    Arr([i \in 1..Len(params.a) |-> AdjustAmount(params.a[i])])

\* The data of a burn command.
BurnData(burn, transactionOptions) ==
    Obj([burn |-> burn, options |-> transactionOptions])

\* --------------------------------------------------------- Account operations
buildAliasOutput(self) ==
    \E data \in {OpaqueObj} :
        Invoke(self, "buildAliasOutput", [data |-> data],
               Method("buildAliasOutput", data), NoHeld)

buildBasicOutput(self) ==
    \E data \in {OpaqueObj} :
        Invoke(self, "buildBasicOutput", [data |-> data],
               Method("buildBasicOutput", data), NoHeld)

buildFoundryOutput(self) ==
    \E data \in {OpaqueObj} :
        Invoke(self, "buildFoundryOutput", [data |-> data],
               Method("buildFoundryOutput", data), NoHeld)

buildNftOutput(self) ==
    \E data \in {OpaqueObj} :
        Invoke(self, "buildNftOutput", [data |-> data],
               Method("buildNftOutput", data), NoHeld)

prepareBurn(self) ==
    \E burn \in Burns, transactionOptions \in Optional :
        Invoke(self, "prepareBurn", [burn |-> burn, transactionOptions |-> transactionOptions],
               Method("prepareBurn", BurnData(burn, transactionOptions)), NoHeld)

prepareBurnNativeToken(self) ==
    \E tokenId \in Ids, burnAmount \in BigAmounts, transactionOptions \in Optional :
        Invoke(self, "prepareBurnNativeToken", [tokenId |-> tokenId, burnAmount |-> burnAmount, transactionOptions |-> transactionOptions],
               Method("prepareBurn", BurnData(Obj([nativeTokens |-> MapOf(<<<<tokenId, burnAmount>>>>)]),
                        transactionOptions)), NoHeld)

prepareBurnNft(self) ==
    \E nftId \in Ids, transactionOptions \in Optional :
        Invoke(self, "prepareBurnNft", [nftId |-> nftId, transactionOptions |-> transactionOptions],
               Method("prepareBurn", BurnData(Obj([nfts |-> Arr(<<nftId>>)]), transactionOptions)), NoHeld)

claimOutputs(self) ==
    \E outputIds \in {Arr(<<id>>) : id \in Ids} :
        Invoke(self, "claimOutputs", [outputIds |-> outputIds],
               Method("claimOutputs", Obj([outputIdsToClaim |-> outputIds])), NoHeld)

prepareConsolidateOutputs(self) ==
    \E params \in {OpaqueObj} :
        Invoke(self, "prepareConsolidateOutputs", [params |-> params],
               Method("prepareConsolidateOutputs", Obj([params |-> params])), NoHeld)

prepareCreateAliasOutput(self) ==
    \E params \in Optional, transactionOptions \in Optional :
        Invoke(self, "prepareCreateAliasOutput", [params |-> params, transactionOptions |-> transactionOptions],
               Method("prepareCreateAliasOutput", Obj([params |-> params, options |-> transactionOptions])), NoHeld)

prepareMeltNativeToken(self) ==
    \E tokenId \in Ids, meltAmount \in BigAmounts, transactionOptions \in Optional :
        Invoke(self, "prepareMeltNativeToken", [tokenId |-> tokenId, meltAmount |-> meltAmount, transactionOptions |-> transactionOptions],
               Method("prepareMeltNativeToken", Obj([tokenId |-> tokenId, meltAmount |-> bigIntToHex(meltAmount),
                    options |-> transactionOptions])), NoHeld)

deregisterParticipationEvent(self) ==
    \E eventId \in Ids :
        Invoke(self, "deregisterParticipationEvent", [eventId |-> eventId],
               Method("deregisterParticipationEvent", Obj([eventId |-> eventId])), NoHeld)

prepareDestroyAlias(self) ==
    \E aliasId \in Ids, transactionOptions \in Optional :
        Invoke(self, "prepareDestroyAlias", [aliasId |-> aliasId, transactionOptions |-> transactionOptions],
               Method("prepareBurn", BurnData(Obj([aliases |-> Arr(<<aliasId>>)]), transactionOptions)), NoHeld)

prepareDestroyFoundry(self) ==
    \E foundryId \in Ids, transactionOptions \in Optional :
        Invoke(self, "prepareDestroyFoundry", [foundryId |-> foundryId, transactionOptions |-> transactionOptions],
               Method("prepareBurn", BurnData(Obj([foundries |-> Arr(<<foundryId>>)]), transactionOptions)), NoHeld)

generateEd25519Addresses(self) ==
    \E amount \in {Num(1)}, options \in Optional :
        Invoke(self, "generateEd25519Addresses", [amount |-> amount, options |-> options],
               Method("generateEd25519Addresses", Obj([amount |-> amount, options |-> options])), NoHeld)

getBalance(self) ==
    Invoke(self, "getBalance", <<>>,
           Method0("getBalance"), NoHeld)

getOutput(self) ==
    \E outputId \in Ids :
        Invoke(self, "getOutput", [outputId |-> outputId],
               Method("getOutput", Obj([outputId |-> outputId])), NoHeld)

getParticipationEvent(self) ==
    \E eventId \in Ids :
        Invoke(self, "getParticipationEvent", [eventId |-> eventId],
               Method("getParticipationEvent", Obj([eventId |-> eventId])), NoHeld)

getParticipationEventIds(self) ==
    \E node \in {OpaqueObj}, eventType \in {Undef, Num(0)} :
        Invoke(self, "getParticipationEventIds", [node |-> node, eventType |-> eventType],
               Method("getParticipationEventIds", Obj([node |-> node, eventType |-> eventType])), NoHeld)

getParticipationEvents(self) ==
    Invoke(self, "getParticipationEvents", <<>>,
           Method0("getParticipationEvents"), NoHeld)

getParticipationEventStatus(self) ==
    \E eventId \in Ids :
        Invoke(self, "getParticipationEventStatus", [eventId |-> eventId],
               Method("getParticipationEventStatus", Obj([eventId |-> eventId])), NoHeld)

getFoundryOutput(self) ==
    \E tokenId \in Ids :
        Invoke(self, "getFoundryOutput", [tokenId |-> tokenId],
               Method("getFoundryOutput", Obj([tokenId |-> tokenId])), NoHeld)

claimableOutputs(self) ==
    \E outs \in {Name("All")} :
        Invoke(self, "claimableOutputs", [outputs |-> outs],
               Method("claimableOutputs", Obj([outputsToClaim |-> outs])), NoHeld)

getTransaction(self) ==
    \E transactionId \in Ids :
        Invoke(self, "getTransaction", [transactionId |-> transactionId],
               Method("getTransaction", Obj([transactionId |-> transactionId])), NoHeld)

getIncomingTransaction(self) ==
    \E transactionId \in Ids :
        Invoke(self, "getIncomingTransaction", [transactionId |-> transactionId],
               Method("getIncomingTransaction", Obj([transactionId |-> transactionId])), NoHeld)

addresses(self) ==
    Invoke(self, "addresses", <<>>,
           Method0("addresses"), NoHeld)

addressesWithUnspentOutputs(self) ==
    Invoke(self, "addressesWithUnspentOutputs", <<>>,
           Method0("addressesWithUnspentOutputs"), NoHeld)

outputs(self) ==
    \E filterOptions \in Optional :
        Invoke(self, "outputs", [filterOptions |-> filterOptions],
               Method("outputs", Obj([filterOptions |-> filterOptions])), NoHeld)

pendingTransactions(self) ==
    Invoke(self, "pendingTransactions", <<>>,
           Method0("pendingTransactions"), NoHeld)

incomingTransactions(self) ==
    Invoke(self, "incomingTransactions", <<>>,
           Method0("incomingTransactions"), NoHeld)

transactions(self) ==
    Invoke(self, "transactions", <<>>,
           Method0("transactions"), NoHeld)

unspentOutputs(self) ==
    \E filterOptions \in Optional :
        Invoke(self, "unspentOutputs", [filterOptions |-> filterOptions],
               Method("unspentOutputs", Obj([filterOptions |-> filterOptions])), NoHeld)

\* A getMetadata that reports the alias the engine holds.
getMetadataOfEngine(self) ==
    /\ pc = "idle"
    /\ op' = [account |-> self, name |-> "getMetadata", args |-> <<>>]
    /\ result' = [state |-> "returned",
                  value |-> Obj([alias |-> engineAlias[self],
                                 coinType |-> Num(meta[self].coinType),
                                 index |-> Num(meta[self].index)])]
    /\ pc' = "settled"
    /\ UNCHANGED <<meta, held, wire, sent, bridge, engine, concurrentVars, handlerVars, engineAlias>>

\* Reads this.meta; no command is sent.
getMetadata(self) ==
    /\ pc = "idle"
    /\ op' = [account |-> self, name |-> "getMetadata", args |-> <<>>]
    /\ result' = [state |-> "returned",
                  value |-> Obj([alias |-> meta[self].alias,
                                 coinType |-> Num(meta[self].coinType),
                                 index |-> Num(meta[self].index)])]
    /\ pc' = "settled"
    /\ UNCHANGED <<meta, held, wire, sent, bridge, engine, concurrentVars, handlerVars, engineAlias>>

prepareMintNativeToken(self) ==
    \E tokenId \in Ids, mintAmount \in BigAmounts, transactionOptions \in Optional :
        Invoke(self, "prepareMintNativeToken", [tokenId |-> tokenId, mintAmount |-> mintAmount, transactionOptions |-> transactionOptions],
               Method("prepareMintNativeToken", Obj([tokenId |-> tokenId, mintAmount |-> bigIntToHex(mintAmount),
                    options |-> transactionOptions])), NoHeld)

\* params is rewritten in place: adjustedParams is the caller's object.
prepareCreateNativeToken(self) ==
    \E c \in Candidates("CreateNativeTokenParams", CreateNativeTokenParamsSet),
       transactionOptions \in Optional :
        LET params == c.params
            a1 == Put(params, "circulatingSupply",
                      bigIntToHex(Get(params, "circulatingSupply")))
            adjustedParams == Put(a1, "maximumSupply",
                                  bigIntToHex(Get(a1, "maximumSupply")))
        IN  Invoke(self, "prepareCreateNativeToken",
                   [params |-> params, transactionOptions |-> transactionOptions],
                   Method("prepareCreateNativeToken",
                          Obj([params |-> adjustedParams,
                               options |-> transactionOptions])),
                   Held("CreateNativeTokenParams", adjustedParams, c.uses))

prepareMintNfts(self) ==
    \E params \in {Arr(<<OpaqueObj>>)}, transactionOptions \in Optional :
        Invoke(self, "prepareMintNfts", [params |-> params, transactionOptions |-> transactionOptions],
               Method("prepareMintNfts", Obj([params |-> params, options |-> transactionOptions])), NoHeld)

\* params.amount is rewritten in place when it is a bigint.
prepareOutput(self) ==
    \E c \in Candidates("OutputParams", OutputParamsSet),
       transactionOptions \in Optional :
        LET params == c.params
            adjusted == AdjustAmount(params)
        IN  Invoke(self, "prepareOutput",
                   [params |-> params, transactionOptions |-> transactionOptions],
                   Method("prepareOutput",
                          Obj([params |-> adjusted,
                               transactionOptions |-> transactionOptions])),
                   Held("OutputParams", adjusted, c.uses))

\* Every params[i].amount that is a bigint is rewritten in place.
prepareSend(self) ==
    \E c \in Candidates("SendParams[]", SendParamsLists),
       options \in Optional :
        LET params == c.params
            adjusted == AdjustAmounts(params)
        IN  Invoke(self, "prepareSend",
                   [params |-> params, options |-> options],
                   Method("prepareSend",
                          Obj([params |-> adjusted, options |-> options])),
                   Held("SendParams[]", adjusted, c.uses))

prepareTransaction(self) ==
    \E outs \in {Arr(<<OpaqueObj>>)}, options \in Optional :
        Invoke(self, "prepareTransaction", [outputs |-> outs, options |-> options],
               Method("prepareTransaction", Obj([outputs |-> outs, options |-> options])), NoHeld)

registerParticipationEvents(self) ==
    \E options \in {OpaqueObj} :
        Invoke(self, "registerParticipationEvents", [options |-> options],
               Method("registerParticipationEvents", Obj([options |-> options])), NoHeld)

\* Retry data with interval and maxAttempts in each other's place.
RetryDataSwapped(transactionId, interval, maxAttempts) ==
    Obj([transactionId |-> transactionId, interval |-> maxAttempts,
         maxAttempts |-> interval])

\* Retry data that leaves maxAttempts out.
RetryDataNoLimit(transactionId, interval, maxAttempts) ==
    Obj([transactionId |-> transactionId, interval |-> interval,
         maxAttempts |-> Undef])

\* The data of the retry command: the three arguments as they were passed.
RetryData(transactionId, interval, maxAttempts) ==
    Obj([transactionId |-> transactionId, interval |-> interval,
         maxAttempts |-> maxAttempts])

retryTransactionUntilIncluded(self) ==
    \E transactionId \in Ids, interval \in {Undef, Num(1000)},
       maxAttempts \in {Undef} \cup {Num(k) : k \in 1..MaxAttempts} :
        Invoke(self, "retryTransactionUntilIncluded",
               [transactionId |-> transactionId, interval |-> interval,
                maxAttempts |-> maxAttempts],
               Method("retryTransactionUntilIncluded",
                      RetryData(transactionId, interval, maxAttempts)),
               NoHeld)

send(self) ==
    \E amount \in Amounts, address \in Ids, transactionOptions \in Optional :
        Invoke(self, "send",
               [amount |-> amount, address |-> address,
                transactionOptions |-> transactionOptions],
               Method("send", Obj([amount |-> amountToString(amount),
                                   address |-> address,
                                   options |-> transactionOptions])),
               NoHeld)

\* Every params[i].amount that is a bigint is rewritten in place.
sendWithParams(self) ==
    \E c \in Candidates("SendParams[]", SendParamsLists),
       transactionOptions \in Optional :
        LET params == c.params
            adjusted == AdjustAmounts(params)
        IN  Invoke(self, "sendWithParams",
                   [params |-> params, transactionOptions |-> transactionOptions],
                   Method("sendWithParams",
                          Obj([params |-> adjusted,
                               options |-> transactionOptions])),
                   Held("SendParams[]", adjusted, c.uses))

prepareSendNativeTokens(self) ==
    \E params \in {Arr(<<OpaqueObj>>)}, transactionOptions \in Optional :
        Invoke(self, "prepareSendNativeTokens", [params |-> params, transactionOptions |-> transactionOptions],
               Method("prepareSendNativeTokens", Obj([params |-> params, options |-> transactionOptions])), NoHeld)

prepareSendNft(self) ==
    \E params \in {Arr(<<OpaqueObj>>)}, transactionOptions \in Optional :
        Invoke(self, "prepareSendNft", [params |-> params, transactionOptions |-> transactionOptions],
               Method("prepareSendNft", Obj([params |-> params, options |-> transactionOptions])), NoHeld)

sendOutputs(self) ==
    \E outs \in {Arr(<<OpaqueObj>>)}, transactionOptions \in Optional :
        Invoke(self, "sendOutputs", [outputs |-> outs, transactionOptions |-> transactionOptions],
               Method("sendOutputs", Obj([outputs |-> outs, options |-> transactionOptions])), NoHeld)

setAlias(self) ==
    \E alias \in {Name("Bob")} :
        Invoke(self, "setAlias", [alias |-> alias],
               Method("setAlias", Obj([alias |-> alias])), NoHeld)

setDefaultSyncOptions(self) ==
    \E options \in {OpaqueObj} :
        Invoke(self, "setDefaultSyncOptions", [options |-> options],
               Method("setDefaultSyncOptions", Obj([options |-> options])), NoHeld)

\* The variants the caller puts into an essence: each constructor sets the
\* tag its family's discriminator registers for it.
UTXOInput(transactionId, transactionOutputIndex) ==
    Inst("UTXOInput", [type |-> Num(0), transactionId |-> transactionId,
                       transactionOutputIndex |-> transactionOutputIndex])
BasicOutput(amount) == Inst("BasicOutput", [type |-> Num(3), amount |-> amount])
TaggedDataPayload(tag, data) ==
    Inst("TaggedDataPayload", [type |-> Num(5), tag |-> tag, data |-> data])

\* The essences the caller builds, and the prepared data that hold them.
\* The lists of up to n different elements, in rising and in falling order.
ListsUpTo(Element(_), n) ==
    {[j \in 1..k |-> Element(j)] : k \in 0..n}
    \cup {[j \in 1..k |-> Element(k + 1 - j)] : k \in 0..n}
InputNo(j) == UTXOInput(Name("tx1"), Num(j))
OutputNo(j) == BasicOutput(Str(NatToString(j, 10)))
Essences ==
    {RegularTransactionEssence(Num(1), Name("0xc"), Arr(i), Arr(o), p) :
        i \in ListsUpTo(InputNo, MaxInputs),
        o \in ListsUpTo(OutputNo, MaxOutputs),
        p \in {Undef, TaggedDataPayload(Name("0xa"), Name("0xb"))}}
PreparedTransactionDatas ==
    {Inst("PreparedTransactionData",
          [essence |-> e, inputsData |-> Arr(<<>>)]) : e \in Essences}

signTransactionEssence(self) ==
    \E preparedTransactionData \in PreparedTransactionDatas :
        Invoke(self, "signTransactionEssence", [preparedTransactionData |-> preparedTransactionData],
               Method("signTransactionEssence", Obj([preparedTransactionData |-> preparedTransactionData])), NoHeld)

\* A signAndSubmitTransaction that sends its command without the prepared
\* transaction data.
signAndSubmitTransactionUnprepared(self) ==
    \E preparedTransactionData \in {OpaqueObj} :
        Invoke(self, "signAndSubmitTransaction", [preparedTransactionData |-> preparedTransactionData],
               Method("signAndSubmitTransaction", Obj(EmptyFcn)), NoHeld)

signAndSubmitTransaction(self) ==
    \E preparedTransactionData \in {OpaqueObj} :
        Invoke(self, "signAndSubmitTransaction", [preparedTransactionData |-> preparedTransactionData],
               Method("signAndSubmitTransaction", Obj([preparedTransactionData |-> preparedTransactionData])), NoHeld)

submitAndStoreTransaction(self) ==
    \E signedTransactionData \in {OpaqueObj} :
        Invoke(self, "submitAndStoreTransaction", [signedTransactionData |-> signedTransactionData],
               Method("submitAndStoreTransaction", Obj([signedTransactionData |-> signedTransactionData])), NoHeld)

\* A sync that fills in options of its own when the caller gave none.
syncWithDefaults(self) ==
    \E options \in Optional :
        Invoke(self, "sync", [options |-> options],
               Method("sync", Obj([options |-> IF options = Undef
                                               THEN Obj(EmptyFcn)
                                               ELSE options])), NoHeld)

sync(self) ==
    \E options \in Optional :
        Invoke(self, "sync", [options |-> options],
               Method("sync", Obj([options |-> options])), NoHeld)

prepareVote(self) ==
    \E eventId \in {Undef} \cup Ids, answers \in {Undef, Arr(<<Num(0)>>)} :
        Invoke(self, "prepareVote", [eventId |-> eventId, answers |-> answers],
               Method("prepareVote", Obj([eventId |-> eventId, answers |-> answers])), NoHeld)

prepareStopParticipating(self) ==
    \E eventId \in Ids :
        Invoke(self, "prepareStopParticipating", [eventId |-> eventId],
               Method("prepareStopParticipating", Obj([eventId |-> eventId])), NoHeld)

getParticipationOverview(self) ==
    \E eventIds \in {Undef} \cup {Arr(<<id>>) : id \in Ids} :
        Invoke(self, "getParticipationOverview", [eventIds |-> eventIds],
               Method("getParticipationOverview", Obj([eventIds |-> eventIds])), NoHeld)

\* return this.prepareIncreaseVotingPower(amount)
\* The method object of prepareIncreaseVotingPower(amount).
IncreaseVotingPowerMethod(amount) ==
    Method("prepareIncreaseVotingPower", Obj([amount |-> amount]))

\* A prepareVotingPower that sends a command of its own name.
prepareVotingPowerOwnCommand(self) ==
    \E amount \in DecAmounts \cup {Name("abc")} :
        Invoke(self, "prepareVotingPower", [amount |-> amount],
               Method("prepareVotingPower", Obj([amount |-> amount])),
               NoHeld)

\* return this.prepareIncreaseVotingPower(amount)
prepareVotingPower(self) ==
    \E amount \in DecAmounts \cup {Name("abc")} :
        Invoke(self, "prepareVotingPower", [amount |-> amount],
               IncreaseVotingPowerMethod(amount), NoHeld)

prepareIncreaseVotingPower(self) ==
    \E amount \in DecAmounts \cup {Name("abc")} :
        Invoke(self, "prepareIncreaseVotingPower", [amount |-> amount],
               IncreaseVotingPowerMethod(amount), NoHeld)

prepareDecreaseVotingPower(self) ==
    \E amount \in DecAmounts \cup {Name("abc")} :
        Invoke(self, "prepareDecreaseVotingPower", [amount |-> amount],
               Method("prepareDecreaseVotingPower", Obj([amount |-> amount])),
               NoHeld)

\* ------------------------------------------------------------------ the engine
\* The engine is reached only through sendMessageAsync: it reads the command
\* text and answers with a response text, or fails with an error.
EngineCommand == JSONparse(wire).value
EngineMethod == Get(Get(EngineCommand, "payload"), "method")
EngineCmdName == Get(EngineMethod, "name").s[1]
EngineData == Get(EngineMethod, "data")

\* The success envelope { payload } as a text.
OkText(payload) == Text(Ser(Obj([payload |-> payload])))

HexText(n) == Str(<<"0", "x">> \o NatToString(n, 16))
DecText(n) == Str(NatToString(n, 10))

BalancePayload(bt, ba, toks, al, bs, fo, nf) ==
    Obj([baseCoin |-> Obj([total |-> bt, available |-> ba]),
         nativeTokens |-> Arr(toks),
         requiredStorageDeposit |->
             Obj([alias |-> al, basic |-> bs, foundry |-> fo, nft |-> nf])])

Token(t, a) == Obj([id |-> Name("tok"), total |-> t, available |-> a])

\* Native tokens are hex on the wire, in either case of the digits.
TokenSet ==
    {Token(t, a) : t \in {HexText(10), HexText(MaxAmount)},
                   a \in {HexText(0), Str(<<"0", "x", "A">>)}}

\* Balance payloads whose amount strings are all well formed.
WellFormedBalances ==
    {BalancePayload(bt, ba, toks, al, bs, DecText(MaxAmount), nf) :
        bt \in {HexText(MaxAmount), DecText(10)},
        ba \in {HexText(0), DecText(MaxAmount)},
        toks \in SeqsUpTo(TokenSet, MaxTokens),
        al \in {DecText(0), DecText(10)},
        bs \in {DecText(10), DecText(MaxAmount)},
        nf \in {DecText(0), DecText(MaxAmount)}}

\* Strings that are no number.
BadStrings == {Str(<<>>), Str(<<" ">>), Name("zz")}

\* Balance payloads with one amount string that is no number, or with the
\* hex prefix missing from a native token's amount.
MalformedBalances ==
    LET g == HexText(10)
        d == DecText(10)
        tk == <<Token(g, g)>>
    IN  UNION {
          {BalancePayload(b, g, tk, d, d, d, d),
           BalancePayload(g, b, tk, d, d, d, d),
           BalancePayload(g, g, <<Token(b, g)>>, d, d, d, d),
           BalancePayload(g, g, <<Token(g, b)>>, d, d, d, d),
           BalancePayload(g, g, tk, b, d, d, d),
           BalancePayload(g, g, tk, d, b, d, d),
           BalancePayload(g, g, tk, d, d, b, d),
           BalancePayload(g, g, tk, d, d, d, b)} : b \in BadStrings}
        \cup {BalancePayload(g, g, <<Token(d, g)>>, d, d, d, d),
              Obj([baseCoin |-> Obj([total |-> g, available |-> g])])}

\* Plain essences as the engine writes them: a regular one, one with a tag
\* no essence is registered under, and a regular one whose input, output
\* and payload carry tags their families do not register.
EssencePlain(type, inputType, outputType, payload) ==
    Obj([type |-> type, networkId |-> Num(1), inputsCommitment |-> Name("0xc"),
         inputs |-> Arr(<<Obj([type |-> Num(0), transactionId |-> Name("tx1"),
                               transactionOutputIndex |-> Num(0)]),
                          Obj([type |-> inputType, transactionId |-> Name("tx2"),
                               transactionOutputIndex |-> Num(1)])>>),
         outputs |-> Arr(<<Obj([type |-> outputType, amount |-> DecText(10)])>>),
         payload |-> payload])
EssencePayloads ==
    {Obj([essence |-> e]) :
        e \in {EssencePlain(Num(1), Num(0), Num(3), Undef),
               EssencePlain(Num(2), Num(0), Num(3), Undef),
               EssencePlain(Name("1"), Num(0), Num(3), Undef),
               EssencePlain(Num(1), Num(9), Num(3), Undef),
               EssencePlain(Num(1), Num(0), Num(99), Undef),
               EssencePlain(Num(1), Num(0), Num(3), Obj([type |-> Num(77)]))}}

\* What the engine answers to signTransactionEssence: the essence it was
\* sent, inside a transaction payload.
SignedPayloads ==
    {Obj([txPayload |->
            Obj([type |-> Num(6),
                 essence |-> Get(Get(EngineData, "preparedTransactionData"),
                                 "essence"),
                 unlocks |-> Arr(<<>>)])])}

\* What the engine answers to the other commands.
GenericPayloads ==
    {Obj([type |-> Num(3), amount |-> DecText(1)]),
     Obj([type |-> Num(99)]),
     Arr(<<Obj([transactionId |-> Name("tx1")])>>),
     Name("r1")}

\* Texts that are no success envelope: {}, null, and no JSON at all.
OddTexts ==
    {Text(Ser(Obj(EmptyFcn))), Text(<<W("null")>>), Text(<<W("<html>")>>)}

Responses(cmdName) ==
    OddTexts \cup
    IF cmdName \in BalanceOps
    THEN {OkText(b) : b \in WellFormedBalances \cup MalformedBalances}
    ELSE IF cmdName = "signTransactionEssence"
    THEN {OkText(g) : g \in SignedPayloads}
    ELSE {OkText(g) : g \in GenericPayloads \cup EssencePayloads}

InsufficientFunds == Obj([code |-> Name("InsufficientFunds")])

\* What sendMessageAsync rejects with: a string holding an error envelope
\* (with or without a type field), a string that is no JSON, an Error object
\* whose message is the envelope, an object text without payload, null.
EngineErrors ==
    {Text(Ser(Obj([payload |-> InsufficientFunds]))),
     Text(Ser(Obj([type |-> Name("error"), payload |-> Name("failed")]))),
     Text(<<W("connection"), W("refused")>>),
     Err("Error", Ser(Obj([payload |-> InsufficientFunds]))),
     Text(Ser(Obj([code |-> Name("NoPayload")]))),
     Text(<<W("null")>>)}

BlockIds == {Name("blk1"), Name("blk2")}
NotIncludedError == Obj([type |-> Name("NotIncludedError")])

\* The attempts the engine makes when the command names no maxAttempts.
DefaultMaxAttempts == 3

EngineIsRetry == EngineCmdName = "retryTransactionUntilIncluded"

RetryLimit ==
    LET m == Get(EngineData, "maxAttempts") IN
    IF m.t = "number" THEN m.n ELSE DefaultMaxAttempts

Outcome(r) ==
    IF r.ok THEN [state |-> "returned", value |-> r.value]
    ELSE [state |-> "threw", error |-> r.error]

\* sendMessageAsync fulfils: the bridge resolves with the text and the
\* Account method runs on from its await.
Resolve(text) ==
    /\ bridge' = [state |-> "resolved", value |-> text]
    /\ result' = Outcome(Decode(op.name, op.account, text))
    /\ pc' = "settled"

\* sendMessageAsync rejects: the catch handler of sendMessage picks the
\* rejection value, and the await in the Account method throws it on.
Reject(error) ==
    LET reason == sendMessageCatch(error) IN
    /\ bridge' = [state |-> "rejected", reason |-> reason]
    /\ result' = [state |-> "threw", error |-> reason]
    /\ pc' = "settled"

EngineRespond ==
    /\ pc = "awaiting"
    /\ ~EngineIsRetry
    /\ \E text \in Responses(EngineCmdName) :
        /\ Resolve(text)
        /\ engine' = [engine EXCEPT !.outcome = "fulfilled", !.raw = text]
    /\ UNCHANGED <<meta, op, held, wire, sent, concurrentVars, handlerVars, engineAlias>>

EngineFail ==
    /\ pc = "awaiting"
    /\ \E error \in EngineErrors :
        /\ Reject(error)
        /\ engine' = [engine EXCEPT !.outcome = "rejected", !.raw = error]
    /\ UNCHANGED <<meta, op, held, wire, sent, concurrentVars, handlerVars, engineAlias>>

\* One attempt of the engine's retry loop finds the transaction not included.
EngineRetryNotIncluded ==
    /\ pc = "awaiting"
    /\ EngineIsRetry
    /\ engine.attempts < RetryLimit
    /\ engine' = [engine EXCEPT !.attempts = @ + 1]
    /\ UNCHANGED <<meta, pc, op, held, wire, sent, bridge, result, concurrentVars, handlerVars, engineAlias>>

\* One attempt finds the transaction included in a block: the loop ends and
\* the engine answers with the block's identifier.
EngineRetryIncluded ==
    /\ pc = "awaiting"
    /\ EngineIsRetry
    /\ engine.attempts < RetryLimit
    /\ \E b \in BlockIds :
        /\ Resolve(OkText(b))
        /\ engine' = [attempts |-> engine.attempts + 1,
                      included |-> engine.attempts + 1,
                      blockId |-> b, outcome |-> "fulfilled",
                      raw |-> OkText(b)]
    /\ UNCHANGED <<meta, op, held, wire, sent, concurrentVars, handlerVars, engineAlias>>

\* The attempts are used up: the engine fails the command.
EngineRetryExhausted ==
    /\ pc = "awaiting"
    /\ EngineIsRetry
    /\ engine.attempts >= RetryLimit
    /\ Reject(OkText(NotIncludedError))
    /\ engine' = [engine EXCEPT !.outcome = "rejected",
                                 !.raw = OkText(NotIncludedError)]
    /\ UNCHANGED <<meta, op, held, wire, sent, concurrentVars, handlerVars, engineAlias>>

\* The caller takes the settled outcome and goes on to its next call; the
\* params object it passed stays in its hands.
Return ==
    /\ pc = "settled"
    /\ pc' = "idle"
    /\ op' = [name |-> "none"]
    /\ wire' = Undef
    /\ sent' = 0
    /\ bridge' = [state |-> "none"]
    /\ result' = [state |-> "none"]
    /\ engine' = IdleEngine
    /\ UNCHANGED <<meta, held, concurrentVars, handlerVars, engineAlias>>

Next ==
    \/ \E self \in Accounts :
        \/ buildAliasOutput(self)
        \/ buildBasicOutput(self)
        \/ buildFoundryOutput(self)
        \/ buildNftOutput(self)
        \/ prepareBurn(self)
        \/ prepareBurnNativeToken(self)
        \/ prepareBurnNft(self)
        \/ claimOutputs(self)
        \/ prepareConsolidateOutputs(self)
        \/ prepareCreateAliasOutput(self)
        \/ prepareMeltNativeToken(self)
        \/ deregisterParticipationEvent(self)
        \/ prepareDestroyAlias(self)
        \/ prepareDestroyFoundry(self)
        \/ generateEd25519Addresses(self)
        \/ getBalance(self)
        \/ getOutput(self)
        \/ getParticipationEvent(self)
        \/ getParticipationEventIds(self)
        \/ getParticipationEvents(self)
        \/ getParticipationEventStatus(self)
        \/ getFoundryOutput(self)
        \/ claimableOutputs(self)
        \/ getTransaction(self)
        \/ getIncomingTransaction(self)
        \/ addresses(self)
        \/ addressesWithUnspentOutputs(self)
        \/ outputs(self)
        \/ pendingTransactions(self)
        \/ incomingTransactions(self)
        \/ transactions(self)
        \/ unspentOutputs(self)
        \/ getMetadata(self)
        \/ prepareMintNativeToken(self)
        \/ prepareCreateNativeToken(self)
        \/ prepareMintNfts(self)
        \/ prepareOutput(self)
        \/ prepareSend(self)
        \/ prepareTransaction(self)
        \/ registerParticipationEvents(self)
        \/ retryTransactionUntilIncluded(self)
        \/ send(self)
        \/ sendWithParams(self)
        \/ prepareSendNativeTokens(self)
        \/ prepareSendNft(self)
        \/ sendOutputs(self)
        \/ setAlias(self)
        \/ setDefaultSyncOptions(self)
        \/ signTransactionEssence(self)
        \/ signAndSubmitTransaction(self)
        \/ submitAndStoreTransaction(self)
        \/ sync(self)
        \/ prepareVote(self)
        \/ prepareStopParticipating(self)
        \/ getParticipationOverview(self)
        \/ prepareVotingPower(self)
        \/ prepareIncreaseVotingPower(self)
        \/ prepareDecreaseVotingPower(self)
    \/ EngineRespond
    \/ EngineFail
    \/ EngineRetryNotIncluded
    \/ EngineRetryIncluded
    \/ EngineRetryExhausted
    \/ Return

Spec == Init /\ [][Next]_vars

\* ------------------------------------------------------------------ the alias
\* The engine carries out setAlias: it stores the alias for the account the
\* command addresses and answers with an empty success envelope.
EngineSetsAlias ==
    /\ pc = "awaiting"
    /\ EngineCmdName = "setAlias"
    /\ Resolve(OkText(Null))
    /\ engine' = [engine EXCEPT !.outcome = "fulfilled", !.raw = OkText(Null)]
    /\ LET accountId == Get(Get(EngineCommand, "payload"), "accountId").n
           account == CHOOSE a \in Accounts : AccountIndex(a) = accountId
       IN  engineAlias' = [engineAlias EXCEPT ![account] = Get(EngineData, "alias")]
    /\ UNCHANGED <<meta, op, held, wire, sent, concurrentVars, handlerVars>>

\* The engine answers a command other than setAlias.
EngineRespondsOther ==
    /\ pc = "awaiting"
    /\ EngineCmdName # "setAlias"
    /\ EngineRespond

\* An Account whose alias is set, read and synced in any order.
NextAlias ==
    \/ \E self \in Accounts :
        \/ setAlias(self)
        \/ getMetadata(self)
        \/ sync(self)
        \/ setDefaultSyncOptions(self)
    \/ EngineSetsAlias
    \/ EngineRespondsOther
    \/ EngineFail
    \/ Return

SpecAlias == Init /\ [][NextAlias]_vars

\* ---------------------------------------------------------- the message handler
\* The handles messageHandlerNew may return, and the options of the caller.
Handles == {"h1", "h2"}
AccountManagerOptionsSet ==
    {Undef, Obj([storagePath |-> Name("db")]),
     Obj([storagePath |-> Name("db"), coinType |-> Num(4218)])}
Messages ==
    {Obj([cmd |-> Name("getAccounts")]),
     Obj([cmd |-> Name("backup"), payload |-> OpaqueObj])}
EventTypes == {Arr(<<>>), Arr(<<Name("NewOutput")>>)}

\* options?.key: undefined when there are no options.
OptionalChain(options, key) ==
    IF IsNullish(options) THEN Undef ELSE Get(options, key)

\* A call into ./bindings, as the bindings see it.
BindingCall(fn, arg, handle) == [fn |-> fn, arg |-> arg, handle |-> handle]

\* A handler whose functions read the messageHandler property of the
\* returned object.
HandleUsedProperty(mh) == mh.property

\* The handle sendMessage, listen and destroy pass to the bindings: the
\* const messageHandler of the enclosing createMessageHandler call.
HandleUsed(mh) == mh.const

\* createMessageHandler: the options are serialized, messageHandlerNew is
\* awaited, and the object is returned with the handle it resolved with.
createMessageHandler ==
    /\ messageHandler.state = "none"
    /\ \E options \in AccountManagerOptionsSet, handle \in Handles :
         LET messageOptions ==
                 Obj([storagePath |-> OptionalChain(options, "storagePath"),
                      clientOptions |-> OptionalChain(options, "clientOptions"),
                      coinType |-> OptionalChain(options, "coinType"),
                      secretManager |-> OptionalChain(options, "secretManager")])
         IN  /\ bindings' = Append(bindings,
                     BindingCall("messageHandlerNew",
                                 JSONstringify(messageOptions).value, Undef))
             /\ messageHandler' = [state |-> "open", const |-> handle,
                                   property |-> handle]
    /\ UNCHANGED <<meta, awaitingVars, concurrentVars, engineAlias>>

\* messageHandlerNew rejects: createMessageHandler rejects and no object is
\* returned.
createMessageHandlerFails ==
    /\ messageHandler.state = "none"
    /\ \E options \in {Undef} :
         /\ bindings' = Append(bindings,
                 BindingCall("messageHandlerNew",
                             JSONstringify(Obj(EmptyFcn)).value, Undef))
         /\ messageHandler' = [state |-> "failed"]
    /\ UNCHANGED <<meta, awaitingVars, concurrentVars, engineAlias>>

\* handler.sendMessage(message)
handlerSendMessage ==
    /\ messageHandler.state = "open"
    /\ Len(bindings) < MaxBindingCalls
    /\ \E message \in Messages :
         bindings' = Append(bindings,
             BindingCall("sendMessageAsync", sendMessage(message).value,
                         HandleUsed(messageHandler)))
    /\ UNCHANGED <<meta, awaitingVars, concurrentVars, messageHandler, engineAlias>>

\* handler.callAccountMethod(accountIndex, method)
handlerCallAccountMethod ==
    /\ messageHandler.state = "open"
    /\ Len(bindings) < MaxBindingCalls
    /\ \E self \in Accounts, method \in {Method0("sync")} :
         bindings' = Append(bindings,
             BindingCall("sendMessageAsync",
                         callAccountMethod(meta[self].index, method).value,
                         HandleUsed(messageHandler)))
    /\ UNCHANGED <<meta, awaitingVars, concurrentVars, messageHandler, engineAlias>>

\* handler.listen(eventTypes, callback)
listen ==
    /\ messageHandler.state = "open"
    /\ Len(bindings) < MaxBindingCalls
    /\ \E eventTypes \in EventTypes :
         bindings' = Append(bindings,
             BindingCall("listen", eventTypes, HandleUsed(messageHandler)))
    /\ UNCHANGED <<meta, awaitingVars, concurrentVars, messageHandler, engineAlias>>

\* handler.destroy()
destroy ==
    /\ messageHandler.state = "open"
    /\ Len(bindings) < MaxBindingCalls
    /\ bindings' = Append(bindings,
            BindingCall("destroy", Undef, HandleUsed(messageHandler)))
    /\ UNCHANGED <<meta, awaitingVars, concurrentVars, messageHandler, engineAlias>>

\* The caller assigns the messageHandler property of the returned object.
AssignProperty ==
    /\ messageHandler.state = "open"
    /\ \E handle \in Handles :
         /\ handle # messageHandler.property
         /\ messageHandler' = [messageHandler EXCEPT !.property = handle]
    /\ UNCHANGED <<meta, awaitingVars, concurrentVars, bindings, engineAlias>>

NextHandler ==
    \/ createMessageHandler
    \/ createMessageHandlerFails
    \/ handlerSendMessage
    \/ handlerCallAccountMethod
    \/ listen
    \/ destroy
    \/ AssignProperty

SpecHandler == Init /\ [][NextHandler]_vars

\* ------------------------------------------------------------ concurrent calls
\* A sendMessage that holds a command back while an earlier one is
\* outstanding: the engine does not receive it.
DispatchWhenIdle(received, text) ==
    IF \E i \in 1..Len(received) : received[i].state = "received"
    THEN received
    ELSE Append(received, [text |-> text, state |-> "received"])

\* A sendMessage that never hands the text to the engine.
DispatchNever(received, text) == received

\* sendMessage hands the text to sendMessageAsync at once, whatever calls are
\* outstanding: the engine receives the command.
Dispatch(received, text) ==
    Append(received, [text |-> text, state |-> "received"])

\* The engine reads each command as it receives it: the name of the method
\* the text carries is noted with the command.
EngineReceives(received) ==
    [i \in 1..Len(received) |->
        IF "name" \in DOMAIN received[i] THEN received[i]
        ELSE received[i] @@
             [name |-> Get(Get(Get(JSONparse(received[i].text).value,
                                   "payload"), "method"), "name")]]

\* The commands the caller issues side by side.
ConcurrentMethods == {Method0("getBalance"), Method0("sync")}

\* An Account method is invoked while earlier calls may be outstanding: the
\* command is built and dispatched, and the promise sendMessage returns is
\* the one sendMessageAsync returned for this command.
IssueCall(self) ==
    /\ Len(calls) < MaxCalls
    /\ \E method \in ConcurrentMethods :
         LET r == callAccountMethod(meta[self].index, method)
             after == Dispatch(inbox, r.value)
         IN  /\ r.ok
             /\ inbox' = EngineReceives(after)
             /\ calls' = Append(calls, [account |-> self,
                                        name |-> Get(method, "name"),
                                        wire |-> r.value,
                                        promise |-> Len(after),
                                        state |-> "pending"])
    /\ UNCHANGED <<meta, awaitingVars, handlerVars, engineAlias>>

\* What the engine answers to the i-th command it received: the reply and
\* the errors name the command they answer.
ReceivedName(i) == inbox[i].name
ReplyTo(i) == OkText(Obj([id |-> Num(i), name |-> ReceivedName(i)]))
ErrorsTo(i) ==
    {Text(Ser(Obj([payload |-> Obj([code |-> Name("failed"), id |-> Num(i)])]))),
     Text(<<W("refused"), N(i)>>)}

\* The calls after the promise of the i-th command settled: every call that
\* awaits that promise is resumed with its outcome.
Settled(i, outcome) ==
    [k \in 1..Len(calls) |->
        IF calls[k].promise = i /\ calls[k].state = "pending"
        THEN outcome @@ [account |-> calls[k].account, name |-> calls[k].name,
                         wire |-> calls[k].wire, promise |-> calls[k].promise]
        ELSE calls[k]]

\* The engine answers one of the commands it holds, in any order.
EngineFulfils ==
    /\ \E i \in 1..Len(inbox) :
         /\ inbox[i].state = "received"
         /\ inbox' = [inbox EXCEPT ![i] = [text |-> inbox[i].text,
                                            name |-> inbox[i].name,
                                            state |-> "fulfilled",
                                            reply |-> ReplyTo(i)]]
         /\ calls' = Settled(i, [state |-> "resolved", value |-> ReplyTo(i)])
    /\ UNCHANGED <<meta, awaitingVars, handlerVars, engineAlias>>

\* The engine fails one of the commands it holds: the catch handler of that
\* call's sendMessage picks the rejection value.
EngineRejects ==
    /\ \E i \in 1..Len(inbox) :
         /\ inbox[i].state = "received"
         /\ \E error \in ErrorsTo(i) :
              /\ inbox' = [inbox EXCEPT ![i] = [text |-> inbox[i].text,
                                                 name |-> inbox[i].name,
                                                 state |-> "rejected",
                                                 reply |-> error]]
              /\ calls' = Settled(i, [state |-> "rejected",
                                      reason |-> sendMessageCatch(error)])
    /\ UNCHANGED <<meta, awaitingVars, handlerVars, engineAlias>>

NextConcurrent ==
    \/ \E self \in Accounts : IssueCall(self)
    \/ EngineFulfils
    \/ EngineRejects

SpecConcurrent == Init /\ [][NextConcurrent]_vars

\* The engine answers every command it holds: while a command is
\* outstanding the engine does not stop.
EngineAnswers == EngineFulfils \/ EngineRejects
SpecConcurrentLive == SpecConcurrent /\ WF_vars(EngineAnswers)

\* ===================================================================== claims
\* The command on the wire, as the engine reads it.
WireData == EngineData
WireHas(obj, key) == HasProps(obj) /\ key \in DOMAIN obj.o
\* The value is on the wire under the key as the caller gave it; a value the
\* caller omitted (undefined) leaves the key absent.
Carries(obj, key, v) ==
    IF v.t = "undefined" THEN ~WireHas(obj, key)
    ELSE WireHas(obj, key) /\ obj.o[key] = v

\* The command name each operation declares.
CommandName(opname) ==
    CASE opname \in {"prepareBurnNativeToken", "prepareBurnNft",
                     "prepareDestroyAlias", "prepareDestroyFoundry"} -> "prepareBurn"
      [] opname = "prepareVotingPower" -> "prepareIncreaseVotingPower"
      [] OTHER -> opname

\* C1: every message an Account operation sends is exactly
\* { cmd: "callAccountMethod", payload: { accountId, method: { name, data? } } }
\* with accountId the index of the Account it was invoked on and method.name
\* the command name of the operation, whatever operations came before.
C1_Envelope ==
    sent > 0 =>
        LET m == JSONparse(wire) IN
        /\ m.ok
        /\ m.value.t = "object"
        /\ DOMAIN m.value.o = {"cmd", "payload"}
        /\ m.value.o.cmd = Name("callAccountMethod")
        /\ m.value.o.payload.t = "object"
        /\ DOMAIN m.value.o.payload.o = {"accountId", "method"}
        /\ m.value.o.payload.o.accountId = Num(meta[op.account].index)
        /\ LET method == m.value.o.payload.o.method IN
           /\ method.t = "object"
           /\ "name" \in DOMAIN method.o
           /\ DOMAIN method.o \subseteq {"name", "data"}
           /\ method.o.name = Name(CommandName(op.name))

\* A command is on the wire from the second Account, after an earlier
\* operation that left a params object in the caller's hands.
C1_Witness ==
    /\ pc = "awaiting"
    /\ sent = 1
    /\ op.account = "A2"
    /\ op.name = "prepareSend"
    /\ held.kind = "SendParams[]"
    /\ held.uses = 1

\* The error envelope { payload: D } as the engine writes it, with or without
\* a type field beside the payload.
ErrorEnvelopes(D) ==
    {Text(Ser(Obj([payload |-> D]))),
     Text(Ser(Obj([type |-> Name("error"), payload |-> D])))}
ErrorDetails == {InsufficientFunds, Name("failed"), NotIncludedError}

\* C2: when the engine fails a command with an error envelope { payload: D },
\* the bridge call is rejected with D itself, and so is the operation.
C2_ErrorDetailVerbatim ==
    \A D \in ErrorDetails :
        (engine.outcome = "rejected" /\ engine.raw \in ErrorEnvelopes(D)) =>
            /\ bridge = [state |-> "rejected", reason |-> D]
            /\ result = [state |-> "threw", error |-> D]

\* The engine failed a command with {"payload":{"code":"InsufficientFunds"}}.
C2_Witness ==
    /\ pc = "settled"
    /\ engine.outcome = "rejected"
    /\ engine.raw = Text(<<P("{"), S(<<"payload">>), P(":"),
                           P("{"), S(<<"code">>), P(":"),
                           S(<<"InsufficientFunds">>), P("}"), P("}")>>)
    /\ bridge.state = "rejected"
    /\ bridge.reason = InsufficientFunds

\* The error's text is no JSON envelope: it is no JSON at all, or it is null.
NoEnvelope(error) ==
    LET parsed == JSONparse(error) IN ~parsed.ok \/ IsNullish(parsed.value)

\* C3: when the engine's error cannot be parsed as a JSON envelope, the
\* bridge call is rejected with the raw error object itself.
C3_RawErrorUnchanged ==
    (engine.outcome = "rejected" /\ NoEnvelope(engine.raw)) =>
        /\ bridge = [state |-> "rejected", reason |-> engine.raw]
        /\ result = [state |-> "threw", error |-> engine.raw]

\* The engine failed with an Error object, whose text "Error: {...}" is no
\* JSON, and the call was rejected with that object.
C3_Witness ==
    /\ pc = "settled"
    /\ engine.outcome = "rejected"
    /\ engine.raw.t = "Error"
    /\ ~JSONparse(engine.raw).ok
    /\ bridge.state = "rejected"
    /\ bridge.reason = engine.raw

\* The amounts a wire string denotes: a 0x-prefixed hex numeral in either
\* case of the digits, or a decimal numeral.
UpperHex(n) ==
    LET low == NatToString(n, 16)
    IN  [i \in 1..Len(low) |-> HexUpper[IndexOf(HexLower, low[i])]]
Denoted(v) ==
    {n \in 0..(MaxAmount + 1) :
        v \in {HexText(n), DecText(n), Str(<<"0", "x">> \o UpperHex(n))}}
\* The field of the result is the integer its wire string denotes.
Converted(wireHolder, gotHolder, field) ==
    \A n \in Denoted(Get(wireHolder, field)) : Get(gotHolder, field) = Big(n)

IsDecimalOf(v, n) ==
    /\ v.t = "string" /\ "s" \in DOMAIN v
    /\ AllDigits(v.s, 10)
    /\ Len(v.s) > 1 => v.s[1] # "0"
    /\ DigitsValue(v.s, 10) = n
\* An amount on the wire, against the amount the caller supplied.
AmountCarried(given, onWire) ==
    IF given.t = "bigint" THEN IsDecimalOf(onWire, given.b)
    ELSE onWire = given
\* A params object on the wire: its amount as above, its other entry as given.
ParamsCarried(given, onWire, other) ==
    /\ HasProps(onWire)
    /\ DOMAIN onWire.o = {"amount", other}
    /\ AmountCarried(Get(given, "amount"), Get(onWire, "amount"))
    /\ Get(onWire, other) = Get(given, other)
ParamsListCarried(given, onWire) ==
    /\ onWire.t = "array"
    /\ Len(onWire.a) = Len(given.a)
    /\ \A i \in 1..Len(given.a) : ParamsCarried(given.a[i], onWire.a[i], "address")
SendStyleOps == {"send", "sendWithParams", "prepareSend", "prepareOutput"}

\* C5: send, sendWithParams, prepareSend and prepareOutput put an amount
\* given as an integer n on the wire as the decimal string of n, an amount
\* given as a string unchanged, and every other field of the data as given.
C5_SendStyleAmounts ==
    (pc # "idle" /\ op.name \in SendStyleOps) =>
        /\ sent = 1
        /\ CASE op.name = "send" ->
                  /\ AmountCarried(op.args.amount, Get(WireData, "amount"))
                  /\ Carries(WireData, "address", op.args.address)
                  /\ Carries(WireData, "options", op.args.transactionOptions)
                  /\ DOMAIN WireData.o \subseteq {"amount", "address", "options"}
             [] op.name = "sendWithParams" ->
                  /\ ParamsListCarried(op.args.params, Get(WireData, "params"))
                  /\ Carries(WireData, "options", op.args.transactionOptions)
                  /\ DOMAIN WireData.o \subseteq {"params", "options"}
             [] op.name = "prepareSend" ->
                  /\ ParamsListCarried(op.args.params, Get(WireData, "params"))
                  /\ Carries(WireData, "options", op.args.options)
                  /\ DOMAIN WireData.o \subseteq {"params", "options"}
             [] op.name = "prepareOutput" ->
                  /\ ParamsCarried(op.args.params, Get(WireData, "params"),
                                   "recipientAddress")
                  /\ Carries(WireData, "transactionOptions",
                             op.args.transactionOptions)
                  /\ DOMAIN WireData.o \subseteq {"params", "transactionOptions"}

\* sendWithParams was called with the integer 17 and with options: "17" is
\* on the wire.
C5_Witness ==
    /\ pc = "awaiting"
    /\ op.name = "sendWithParams"
    /\ Len(op.args.params.a) = 1
    /\ Get(op.args.params.a[1], "amount") = Big(MaxAmount)
    /\ op.args.transactionOptions = OpaqueObj
    /\ Get(Get(WireData, "params").a[1], "amount") = Str(NatToString(MaxAmount, 10))

\* The decimal string of n is a string somewhere in the serialized command.
DecimalOnWire(n) ==
    \E i \in 1..Len(wire.x) : wire.x[i] = S(NatToString(n, 10))
\* The integer amounts the caller supplied to the operation.
IntegerAmounts ==
    LET Ints(vs) == {v.b : v \in {u \in vs : u.t = "bigint"}} IN
    CASE op.name = "send" -> Ints({op.args.amount})
      [] op.name \in {"sendWithParams", "prepareSend"} ->
            Ints({Get(op.args.params.a[i], "amount") :
                    i \in 1..Len(op.args.params.a)})
      [] op.name = "prepareOutput" -> Ints({Get(op.args.params, "amount")})
      [] op.name = "prepareMintNativeToken" -> Ints({op.args.mintAmount})
      [] op.name = "prepareMeltNativeToken" -> Ints({op.args.meltAmount})
      [] op.name = "prepareCreateNativeToken" ->
            Ints({Get(op.args.params, "circulatingSupply"),
                  Get(op.args.params, "maximumSupply")})
      [] op.name = "prepareBurnNativeToken" -> Ints({op.args.burnAmount})
      [] OTHER -> {}

\* C6: every operation that accepts an amount as an integer (the send-style
\* ones, prepareMintNativeToken, prepareMeltNativeToken,
\* prepareCreateNativeToken, prepareBurnNativeToken) carries it in the
\* serialized command as a decimal string.
C6_AllAmountsDecimal ==
    (pc # "idle" /\ op.name # "none") =>
        \A n \in IntegerAmounts : sent = 1 /\ DecimalOnWire(n)

\* The operations whose return value is a PreparedTransaction.
PrepareOps ==
    {"prepareBurn", "prepareBurnNativeToken", "prepareBurnNft",
     "prepareDestroyAlias", "prepareDestroyFoundry",
     "prepareConsolidateOutputs", "prepareCreateAliasOutput",
     "prepareMintNativeToken", "prepareMeltNativeToken",
     "prepareCreateNativeToken", "prepareMintNfts", "prepareSend",
     "prepareTransaction", "prepareSendNativeTokens", "prepareSendNft",
     "prepareVote", "prepareStopParticipating", "prepareVotingPower",
     "prepareIncreaseVotingPower", "prepareDecreaseVotingPower"}

\* C7: every successful prepare* operation that returns transaction data
\* returns a PreparedTransaction whose account is the Account it was invoked
\* on, never another one.
C7_PreparedBoundToSelf ==
    (result.state = "returned" /\ op.name \in PrepareOps) =>
        /\ result.value.t = "PreparedTransaction"
        /\ result.value.account = op.account

\* prepareVote on the second account returned its prepared transaction.
C7_Witness ==
    /\ result.state = "returned"
    /\ op.name = "prepareVote"
    /\ op.account = "A2"
    /\ result.value.t = "PreparedTransaction"
    /\ result.value.data.t = "instance"

IsRetry == op.name = "retryTransactionUntilIncluded"

\* C8: one invocation of retryTransactionUntilIncluded sends exactly one
\* command named retryTransactionUntilIncluded, whose data carries
\* transactionId, interval and maxAttempts as supplied (absent when omitted),
\* however many attempts the engine makes; its outcome is the engine's.
C8_RetrySendsOnce ==
    (IsRetry /\ pc # "idle") =>
        /\ sent = 1
        /\ Get(EngineMethod, "name") = Name("retryTransactionUntilIncluded")
        /\ Carries(WireData, "transactionId", op.args.transactionId)
        /\ Carries(WireData, "interval", op.args.interval)
        /\ Carries(WireData, "maxAttempts", op.args.maxAttempts)
        /\ DOMAIN WireData.o \subseteq {"transactionId", "interval", "maxAttempts"}
        /\ pc = "settled" =>
             /\ engine.outcome = "fulfilled" =>
                  result = [state |-> "returned",
                            value |-> Get(JSONparse(engine.raw).value, "payload")]
             /\ engine.outcome = "rejected" => result.state = "threw"

\* The engine is at its second attempt of a retry whose interval was omitted
\* and whose maxAttempts was given: still one command sent.
C8_Witness ==
    /\ IsRetry
    /\ pc = "awaiting"
    /\ engine.attempts = 2
    /\ op.args.interval = Undef
    /\ op.args.maxAttempts = Num(MaxAttempts)
    /\ sent = 1

\* C9: when the engine reports inclusion on attempt k <= maxAttempts,
\* retryTransactionUntilIncluded returns the block identifier of that attempt.
C9_RetryReturnsBlockId ==
    (IsRetry /\ pc = "settled" /\ engine.included > 0) =>
        /\ result = [state |-> "returned", value |-> engine.blockId]
        /\ engine.blockId \in BlockIds
        /\ op.args.maxAttempts.t = "number" =>
             engine.included <= op.args.maxAttempts.n

\* Inclusion was reported on attempt 2 of 2 and that block id was returned.
C9_Witness ==
    /\ IsRetry
    /\ pc = "settled"
    /\ op.args.maxAttempts = Num(2)
    /\ engine.included = 2
    /\ engine.blockId = Name("blk2")
    /\ result = [state |-> "returned", value |-> Name("blk2")]

\* C10: when the engine never reports inclusion within maxAttempts attempts,
\* retryTransactionUntilIncluded fails with NotIncludedError after exactly
\* maxAttempts attempts, and never returns a block identifier.
C10_RetryExhausted ==
    IsRetry =>
        /\ op.args.maxAttempts.t = "number" =>
             engine.attempts <= op.args.maxAttempts.n
        /\ (pc = "settled" /\ engine.included = 0) => result.state = "threw"
        /\ (pc = "settled" /\ engine.raw = OkText(NotIncludedError)) =>
             /\ result = [state |-> "threw", error |-> NotIncludedError]
             /\ engine.included = 0
             /\ op.args.maxAttempts.t = "number" =>
                  engine.attempts = op.args.maxAttempts.n

\* Two attempts of two found the transaction not included, and the operation
\* failed with NotIncludedError.
C10_Witness ==
    /\ IsRetry
    /\ pc = "settled"
    /\ op.args.maxAttempts = Num(2)
    /\ op.args.interval = Num(1000)
    /\ engine.attempts = 2
    /\ engine.included = 0
    /\ result = [state |-> "threw", error |-> NotIncludedError]

\* Every amount field of a balance is an integer.
AmountFields(balance) ==
    LET toks == Get(balance, "nativeTokens") IN
    {Get(Get(balance, "baseCoin"), f) : f \in {"total", "available"}}
    \cup {Get(Get(balance, "requiredStorageDeposit"), f) :
            f \in {"alias", "basic", "foundry", "nft"}}
    \cup (IF toks.t = "array"
          THEN UNION {{Get(toks.a[i], "total"), Get(toks.a[i], "available")} :
                        i \in 1..Len(toks.a)}
          ELSE {})
FullyNormalized(balance) == \A v \in AmountFields(balance) : v.t = "bigint"

Invoked == pc # "idle" /\ op.name # "none"

\* C12 as stated: every invocation of an Account operation sends exactly one
\* command to the engine.
C12_EveryOperationSendsOne ==
    Invoked => sent = 1

\* C12: every invocation of an Account operation that addresses the engine
\* (all but getMetadata, which reads the Account's own metadata and sends
\* nothing) sends exactly one command, and still has sent exactly one after
\* the engine answered with an error.
C12_OneCommandPerInvocation ==
    /\ sent <= 1
    /\ (Invoked /\ op.name # "getMetadata") => sent = 1
    /\ (Invoked /\ op.name = "getMetadata") => sent = 0
    /\ engine.outcome = "rejected" => sent = 1

\* signAndSubmitTransaction was answered with an error: one command was sent.
C12_Witness ==
    /\ pc = "settled"
    /\ op.name = "signAndSubmitTransaction"
    /\ engine.outcome = "rejected"
    /\ result.state = "threw"
    /\ sent = 1

\* The tag of a plain object is not one its family's discriminator registers.
Unregistered(discriminator, v) ==
    /\ v.t = "object"
    /\ \A c \in SubTypes(discriminator) : Get(v, discriminator.property) # c.name
AnyUnregistered(discriminator, list) ==
    /\ list.t = "array"
    /\ \E i \in 1..Len(list.a) : Unregistered(discriminator, list.a[i])
\* The essence of a response payload carries an unregistered tag: its own,
\* or that of one of its inputs, of one of its outputs, or of its payload.
UnregisteredTagIn(payload) ==
    LET e == Get(payload, "essence") IN
    \/ Unregistered(TransactionEssenceDiscriminator, e)
    \/ AnyUnregistered(InputDiscriminator, Get(e, "inputs"))
    \/ AnyUnregistered(OutputDiscriminator, Get(e, "outputs"))
    \/ Unregistered(PayloadDiscriminator, Get(e, "payload"))
\* The payload of the response the bridge resolved with.
Answered == bridge.state = "resolved" /\ JSONparse(bridge.value).ok
AnsweredPayload == Get(JSONparse(bridge.value).value, "payload")

\* C13: decoding prepared transaction data whose essence, or an input, an
\* output or the payload inside it, carries a type tag its family's
\* discriminator does not register fails with DecodeError; the operation
\* never returns it reconstructed as a base variant.
C13_UnregisteredTagRejected ==
    (pc = "settled" /\ op.name \in PrepareOps /\ Answered
     /\ UnregisteredTagIn(AnsweredPayload)) =>
        result = [state |-> "threw", error |-> DecodeError]

\* The essence signTransactionEssence was called with, and the one in the
\* signed essence it returned.
EssenceSent == Get(op.args.preparedTransactionData, "essence")
EssenceReturned == Get(Get(result.value, "txPayload"), "essence")

\* C14: a RegularTransactionEssence built from networkId, inputsCommitment,
\* inputs, outputs and an optional payload, serialized into the command and
\* deserialized from the reply that carries it back, is an equal value: tag
\* 1, the same inputs and outputs in the same order and count, and no
\* payload when there was none.
C14_EssenceRoundTrip ==
    (op.name = "signTransactionEssence" /\ result.state = "returned"
     /\ result.value.t = "instance") =>
        /\ EssenceReturned = EssenceSent
        /\ EssenceReturned.cls = "RegularTransactionEssence"
        /\ Get(EssenceReturned, "type") = Num(1)
        /\ Get(EssenceReturned, "inputs").a = Get(EssenceSent, "inputs").a
        /\ Get(EssenceReturned, "outputs").a = Get(EssenceSent, "outputs").a
        /\ Get(EssenceSent, "payload") = Undef =>
             Get(EssenceReturned, "payload") = Undef

\* An essence with networkId 1, two inputs in falling order, three outputs
\* and no payload came back from the round trip.
C14_Witness ==
    /\ op.name = "signTransactionEssence"
    /\ result.state = "returned"
    /\ result.value.t = "instance"
    /\ Get(EssenceSent, "networkId") = Num(1)
    /\ Get(EssenceSent, "inputs") = Arr(<<InputNo(2), InputNo(1)>>)
    /\ Get(EssenceSent, "outputs") = Arr(<<OutputNo(1), OutputNo(2), OutputNo(3)>>)
    /\ Get(EssenceSent, "payload") = Undef
    /\ Get(EssenceReturned, "outputs") = Arr(<<OutputNo(1), OutputNo(2), OutputNo(3)>>)

\* A canonical lower-case hex string: 0x, then lower-case hex digits with no
\* leading zero (a single 0 for zero).
CanonicalHex(v) ==
    /\ v.t = "string" /\ "s" \in DOMAIN v
    /\ Len(v.s) >= 3 /\ v.s[1] = "0" /\ v.s[2] = "x"
    /\ \A i \in 3..Len(v.s) : v.s[i] \in Range(HexLower)
    /\ Len(v.s) > 3 => v.s[3] # "0"
\* The integer amount the caller gave to a mint or melt, and its wire string.
HexAmountGiven ==
    IF op.name = "prepareMintNativeToken" THEN op.args.mintAmount
    ELSE op.args.meltAmount
HexAmountSent ==
    IF op.name = "prepareMintNativeToken" THEN Get(WireData, "mintAmount")
    ELSE Get(WireData, "meltAmount")

IsDecimalNumeral(v) == v.t = "string" /\ "s" \in DOMAIN v /\ AllDigits(v.s, 10)
IsHexNumeral(v) ==
    /\ v.t = "string" /\ "s" \in DOMAIN v
    /\ Len(v.s) >= 3 /\ v.s[1] = "0" /\ v.s[2] \in {"x", "X"}
    /\ AllDigits(SubSeq(v.s, 3, Len(v.s)), 16)
MalformedNumber(v) == v.t = "string" /\ ~IsDecimalNumeral(v) /\ ~IsHexNumeral(v)

\* C16: when an amount field of a balance response is a malformed numeric
\* string (the empty and the blank string included), getBalance and sync
\* fail with FormatError; they never return a balance with that field
\* replaced by a default such as 0.
C16_MalformedBalanceRejected ==
    (pc = "settled" /\ op.name \in BalanceOps /\ Answered
     /\ \E v \in AmountFields(AnsweredPayload) : MalformedNumber(v)) =>
        result = [state |-> "threw", error |-> FormatError]

\* The amounts the caller supplied to an amount-accepting operation.
AmountsSupplied ==
    CASE op.name \in {"send", "prepareIncreaseVotingPower",
                      "prepareDecreaseVotingPower"} -> {op.args.amount}
      [] op.name \in {"sendWithParams", "prepareSend"} ->
            {Get(op.args.params.a[i], "amount") : i \in 1..Len(op.args.params.a)}
      [] op.name = "prepareOutput" -> {Get(op.args.params, "amount")}
      [] OTHER -> {}

\* C17: when send, sendWithParams, prepareSend, prepareOutput,
\* prepareIncreaseVotingPower or prepareDecreaseVotingPower is called with an
\* amount string that is no well-formed decimal number, the operation fails
\* locally with FormatError and no command is sent.
C17_MalformedAmountRejected ==
    (Invoked /\ \E v \in AmountsSupplied : v.t = "string" /\ ~IsDecimalNumeral(v)) =>
        /\ sent = 0
        /\ result = [state |-> "threw", error |-> FormatError]

\* C18: prepareVotingPower(amount) behaves as prepareIncreaseVotingPower(amount)
\* does: it sends the one command that operation sends for the amount on the
\* same account, and for the engine's reply it yields what that operation
\* yields, result or failure.
C18_VotingPowerAlias ==
    (Invoked /\ op.name = "prepareVotingPower") =>
        /\ sent = 1
        /\ wire = callAccountMethod(meta[op.account].index,
                     IncreaseVotingPowerMethod(op.args.amount)).value
        /\ bridge.state = "resolved" =>
             result = Outcome(Decode("prepareIncreaseVotingPower", op.account,
                                     bridge.value))
        /\ bridge.state = "rejected" =>
             result = [state |-> "threw", error |-> sendMessageCatch(engine.raw)]

\* prepareVotingPower("17") on the second account returned a prepared
\* transaction with a decoded essence.
C18_Witness ==
    /\ pc = "settled"
    /\ op.name = "prepareVotingPower"
    /\ op.account = "A2"
    /\ op.args.amount = Str(<<"1", "7">>)
    /\ result.state = "returned"
    /\ result.value.t = "PreparedTransaction"
    /\ Get(result.value.data, "essence").t = "instance"

\* The operations whose declared return type is an output.
LedgerPrimitiveOps ==
    {"buildAliasOutput", "buildBasicOutput", "buildFoundryOutput",
     "buildNftOutput", "getFoundryOutput", "prepareOutput"}

\* C19: every operation whose declared return type is a ledger primitive
\* (buildAliasOutput, buildBasicOutput, buildFoundryOutput, buildNftOutput,
\* getFoundryOutput, prepareOutput) returns the value Output.parse
\* reconstructs from the response payload, an instance of the variant its
\* tag selects, not the raw payload.
C19_OutputsReconstructed ==
    (result.state = "returned" /\ op.name \in LedgerPrimitiveOps) =>
        /\ Value(result.value) = OutputParse(AnsweredPayload)
        /\ result.value.t = "instance"
        /\ result.value.cls \in {c.value : c \in SubTypes(OutputDiscriminator)}

\* C20: the bridge does not serialize concurrent calls: every call issued
\* has been dispatched to the engine, whether or not the calls before it have
\* settled, and in every order of the engine's answers a call settles with
\* the reply, or the error, to its own command.
C20_ConcurrentCallsKeepTheirReplies ==
    /\ Len(inbox) = Len(calls)
    /\ \A k \in 1..Len(calls) :
        /\ inbox[k].text = calls[k].wire
        /\ calls[k].state = "pending" => inbox[k].state = "received"
        /\ calls[k].state = "resolved" =>
             /\ inbox[k].state = "fulfilled"
             /\ calls[k].value = inbox[k].reply
             /\ LET payload == Get(JSONparse(calls[k].value).value, "payload")
                IN  /\ Get(payload, "id") = Num(k)
                    /\ Get(payload, "name") = calls[k].name
        /\ calls[k].state = "rejected" =>
             /\ inbox[k].state = "rejected"
             /\ calls[k].reason \in
                  {Obj([code |-> Name("failed"), id |-> Num(k)]),
                   Text(<<W("refused"), N(k)>>)}

\* Two calls on the same account were outstanding together and the second
\* was answered first: it is resolved while the first is still pending.
C20_Witness ==
    /\ Len(calls) = 2
    /\ calls[1].account = calls[2].account
    /\ calls[1].state = "pending"
    /\ inbox[1].state = "received"
    /\ calls[2].state = "resolved"
    /\ calls[1].name = Name("sync")
    /\ calls[2].name = Name("getBalance")

\* C21: every dispatched bridge call eventually settles: given an engine
\* that answers each command it receives, a pending call is eventually
\* resumed with a response or with a failure; and no step takes a command
\* back from the engine once it was sent, or changes it.
C21_EveryCallSettles ==
    /\ \A k \in 1..MaxCalls :
         (Len(calls) >= k /\ calls[k].state = "pending")
           ~> (Len(calls) >= k /\ calls[k].state \in {"resolved", "rejected"})
    /\ [][\A i \in 1..Len(inbox) :
             /\ Len(inbox') >= i
             /\ inbox'[i].text = inbox[i].text
             /\ inbox[i].state # "received" => inbox'[i] = inbox[i]]_vars

\* Every call the caller issued has been resumed, one with a response and
\* one with a failure.
C21_Witness ==
    /\ Len(calls) = MaxCalls
    /\ \A k \in 1..Len(calls) : calls[k].state # "pending"
    /\ \E k \in 1..Len(calls) : calls[k].state = "resolved"
    /\ \E k \in 1..Len(calls) : calls[k].state = "rejected"

IsInstanceOf(v, cls) == v.t = "instance" /\ v.cls = cls
Submitted ==
    /\ pc = "settled"
    /\ result.state = "returned"
    /\ op.name \in SubmittingOps
    /\ IsInstanceOf(result.value, "Transaction")

\* C22 as stated: a submitted Transaction record is produced only by
\* signAndSubmitTransaction or submitAndStoreTransaction; no Account operation
\* yields one without prepared data, or a signed essence, going in.
C22_SubmittedOnlyFromPrepared ==
    Submitted =>
        /\ op.name \in {"signAndSubmitTransaction", "submitAndStoreTransaction"}
        /\ \/ WireHas(WireData, "preparedTransactionData")
           \/ WireHas(WireData, "signedTransactionData")

\* C22: a signed essence is returned only by signTransactionEssence, whose
\* command carries the prepared data the caller gave; a Transaction record
\* is returned only by the operations that submit or look up transactions,
\* never by a prepare* operation; signAndSubmitTransaction submits the
\* prepared data it was given and submitAndStoreTransaction the signed
\* essence it was given; and send, sendWithParams, sendOutputs and
\* claimOutputs return a submitted Transaction from a single command that
\* carries neither.
C22_PipelineEntryPoints ==
    /\ (result.state = "returned"
        /\ IsInstanceOf(result.value, "SignedTransactionEssence")) =>
          /\ op.name = "signTransactionEssence"
          /\ Carries(WireData, "preparedTransactionData",
                     JSONparse(JSONstringify(op.args.preparedTransactionData).value).value)
    /\ (result.state = "returned" /\ IsInstanceOf(result.value, "Transaction")) =>
          /\ op.name \in TransactionOps
          /\ op.name \notin PrepareOps
    /\ (Submitted /\ op.name = "signAndSubmitTransaction") =>
          /\ Carries(WireData, "preparedTransactionData", op.args.preparedTransactionData)
          /\ ~WireHas(WireData, "signedTransactionData")
    /\ (Submitted /\ op.name = "submitAndStoreTransaction") =>
          /\ Carries(WireData, "signedTransactionData", op.args.signedTransactionData)
          /\ ~WireHas(WireData, "preparedTransactionData")
    /\ (Submitted /\ op.name \in {"send", "sendWithParams", "sendOutputs", "claimOutputs"}) =>
          /\ ~WireHas(WireData, "preparedTransactionData")
          /\ ~WireHas(WireData, "signedTransactionData")

\* signAndSubmitTransaction returned the Transaction record of the prepared
\* data it sent.
C22_Witness ==
    /\ Submitted
    /\ op.name = "signAndSubmitTransaction"
    /\ WireHas(WireData, "preparedTransactionData")
    /\ Get(result.value, "type") = Num(3)

\* The optional options argument of the operation in progress, and the key
\* of the command data the operation puts it under.
OptionArgs == {"options", "filterOptions", "transactionOptions"}
HasOptions == sent = 1 /\ DOMAIN op.args \cap OptionArgs # {}
OptionsGiven == op.args[CHOOSE k \in DOMAIN op.args \cap OptionArgs : TRUE]
OptionsKey ==
    CASE op.name \in {"outputs", "unspentOutputs"} -> "filterOptions"
      [] op.name = "prepareOutput" -> "transactionOptions"
      [] OTHER -> "options"

\* C23: the options an operation takes (sync options, the filterOptions of
\* outputs and unspentOutputs, the transaction options of the prepare* and
\* send operations) are in the command data as the caller supplied them, and
\* options the caller omitted are absent from the command data: no value is
\* put in their place.
C23_OptionsForwarded ==
    HasOptions =>
        /\ Carries(WireData, OptionsKey, OptionsGiven)
        /\ OptionsGiven = Undef => \A k \in OptionArgs : ~WireHas(WireData, k)

\* sync was called without options and its command has no options field.
C23_Witness ==
    /\ sent = 1
    /\ op.name = "sync"
    /\ op.args.options = Undef
    /\ WireData = Obj(EmptyFcn)

\* The calls into the bindings that carry a handle, by position.
HandleCalls == {i \in 1..Len(bindings) : bindings[i].fn # "messageHandlerNew"}
Releases(handle) ==
    {i \in HandleCalls : bindings[i].fn = "destroy" /\ bindings[i].handle = handle}

\* C24: every call sendMessage, callAccountMethod, listen and destroy make
\* into the bindings through one message handler passes the handle that
\* createMessageHandler obtained, whatever calls came before; no call
\* changes it.
C24_SameHandle ==
    \A i \in HandleCalls :
        /\ messageHandler.state = "open"
        /\ bindings[i].handle = messageHandler.const
        /\ \A j \in HandleCalls : bindings[j].handle = bindings[i].handle

\* After a destroy and a reassigned messageHandler property, a command was
\* sent: it carries the handle createMessageHandler obtained.
C24_Witness ==
    /\ messageHandler.state = "open"
    /\ messageHandler.property # messageHandler.const
    /\ Len(bindings) = MaxBindingCalls
    /\ bindings[2].fn = "destroy"
    /\ bindings[3].fn = "listen"
    /\ bindings[MaxBindingCalls].fn = "sendMessageAsync"
    /\ bindings[MaxBindingCalls].handle = messageHandler.const

\* C25: the session is created once per createMessageHandler call, before
\* any command is sent, and in no sequence of destroy() calls is the release
\* operation of the bindings invoked more than once for the same handle.
C25_CreatedOnceReleasedOnce ==
    /\ \A i \in 1..Len(bindings) : bindings[i].fn = "messageHandlerNew" <=> i = 1
    /\ \A handle \in Handles : Cardinality(Releases(handle)) <= 1

\* C26: after destroy() was called on a message handler no sendMessage,
\* callAccountMethod or listen reaches the bindings with the released
\* handle.
C26_NoUseAfterDestroy ==
    \A i \in HandleCalls : \A j \in HandleCalls :
        (i < j /\ bindings[i].fn = "destroy"
               /\ bindings[j].handle = bindings[i].handle)
            => bindings[j].fn = "destroy"

\* C27: a rejected bridge call always carries an error detail: when the
\* text of the engine's error parses as JSON the rejection value is not
\* undefined, and when the parsed value has no payload field the call is
\* rejected with the original error.
C27_RejectionCarriesDetail ==
    (engine.outcome = "rejected" /\ JSONparse(engine.raw).ok) =>
        /\ bridge.state = "rejected"
        /\ bridge.reason # Undef
        /\ ~WireHas(JSONparse(engine.raw).value, "payload") =>
              bridge.reason = engine.raw

\* The metadata an Account was constructed with.
Constructed_meta(a) ==
    Obj([alias |-> Name(a), coinType |-> Num(4218), index |-> Num(AccountIndex(a))])

\* C28: getMetadata() returns the alias, coinType and index the Account was
\* constructed with after any sequence of operations; a setAlias the engine
\* carried out does not change the alias getMetadata() returns on the same
\* Account.
C28_MetadataAsConstructed ==
    (op.name = "getMetadata" /\ result.state = "returned") =>
        result.value = Constructed_meta(op.account)

\* The engine holds the alias Bob for the first account after a successful
\* setAlias, and getMetadata() on that account returned the alias A1.
C28_Witness ==
    /\ op.name = "getMetadata"
    /\ op.account = "A1"
    /\ result.state = "returned"
    /\ engineAlias["A1"] = Name("Bob")
    /\ Get(result.value, "alias") = Name("A1")

\* The operation in progress was given the params object of the call
\* before, as that call left it: its fields are what that call sent.
RepeatedParams == sent = 1 /\ held.kind # "none" /\ held.uses >= 1

\* C29: invoking prepareSend, sendWithParams, prepareOutput or
\* prepareCreateNativeToken a second time with the same params object sends
\* the same amount values as the first time.
C29_NormalizationIdempotent ==
    (RepeatedParams
     /\ op.name \in {"prepareSend", "sendWithParams", "prepareOutput",
                     "prepareCreateNativeToken"}) =>
        Get(WireData, "params") = op.args.params

\* The text prepareBurn(burn, transactionOptions) hands to the bridge on the
\* account of the operation in progress.
GenericBurn(burn) ==
    callAccountMethod(meta[op.account].index,
                      Method("prepareBurn",
                             BurnData(burn, op.args.transactionOptions))).value
\* The entries a serialized nativeTokens value carries: the elements of an
\* array, the properties of an object.
EntriesOnWire(v) ==
    IF v.t = "array" THEN Len(v.a)
    ELSE IF v.t = "object" THEN Cardinality(DOMAIN v.o)
    ELSE 0

\* C30: prepareBurnNft(id, o), prepareDestroyAlias(id, o) and
\* prepareDestroyFoundry(id, o) send the command prepareBurn({nfts: [id]}, o),
\* prepareBurn({aliases: [id]}, o) and prepareBurn({foundries: [id]}, o)
\* send, and prepareBurnNativeToken(tokenId, burnAmount, o) sends a
\* prepareBurn command whose serialized burn.nativeTokens carries exactly one
\* entry, for tokenId with burnAmount.
C30_BurnEquivalences ==
    /\ (sent = 1 /\ op.name = "prepareBurnNft") =>
          wire = GenericBurn(Obj([nfts |-> Arr(<<op.args.nftId>>)]))
    /\ (sent = 1 /\ op.name = "prepareDestroyAlias") =>
          wire = GenericBurn(Obj([aliases |-> Arr(<<op.args.aliasId>>)]))
    /\ (sent = 1 /\ op.name = "prepareDestroyFoundry") =>
          wire = GenericBurn(Obj([foundries |-> Arr(<<op.args.foundryId>>)]))
    /\ (sent = 1 /\ op.name = "prepareBurnNativeToken") =>
          /\ EngineCmdName = "prepareBurn"
          /\ EntriesOnWire(Get(Get(WireData, "burn"), "nativeTokens")) = 1

====
